---- MODULE Spec2Model ----
(***************************************************************************)
(* Arena Companion: the pending-action relay between the background        *)
(* dispatcher (background/service-worker.js), the frame agents             *)
(* (content/content-script.js) and the side-panel relay                    *)
(* (sidepanel/scripts/main.js), and the selection sanitizer of the         *)
(* dispatcher.                                                             *)
(*                                                                         *)
(* Scheduling model.  Every context is a single-threaded event loop: a     *)
(* handler runs from one await to the next without interruption, so each   *)
(* action below is one such segment.  An awaited call (a storage read or   *)
(* delete, a timer, a message delivery) completes at some later step       *)
(* chosen freely: the code sets only lower bounds on delays.  The clock    *)
(* `now` is Date.now(); it advances over TimePoints.                       *)
(*                                                                         *)
(* Specifications.                                                         *)
(*   Spec        one frame agent in a tab, the dispatcher and the clock    *)
(*   SpecSystem  the frame agent of the side panel and one in a tab        *)
(*   SpecIds     a long run of actions through one frame agent and the     *)
(*               side-panel relay, with the cleanup intervals              *)
(*   SpecText    one context-menu click over every selection text          *)
(*   SpecHandler the listeners of the dispatcher: panel opening with its   *)
(*               retries, then store, then the broadcasts                  *)
(*   SpecRelay   the message handler of the side-panel relay               *)
(*   SpecDom     findTextarea over every small document                    *)
(*   SpecInject  calls of injectPrompt on a document that changes while    *)
(*               the call waits                                            *)
(*   SpecUser    the calls of userDetails over the storage layer           *)
(*   SpecRefresh the refresh control and the overlay of the side panel     *)
(*   SpecRace    two actions stored while the checks of one frame agent    *)
(*               read and delete the record                                *)
(*   SpecBroadcast  the sends of broadcastMessage over every list of tabs  *)
(*   SpecFault   the checks of a frame agent with failing storage calls    *)
(*   SpecFair, SpecHandlerFair, SpecInjectFair, SpecRefreshFair  Spec,     *)
(*               SpecHandler, SpecInject and SpecRefresh with weak         *)
(*               fairness on the timers and the awaited calls, for the     *)
(*               liveness properties                                       *)
(***************************************************************************)
EXTENDS Integers, Sequences, FiniteSets, TLC

VARIABLES
  now,                 \* Date.now(), in ms
  storage,             \* chrome.storage.local[PENDING_ACTION]: a record or NoRecord
  stored,              \* the records storePendingAction has created; the id is the index
  rounds,              \* per created action: broadcast rounds sent so far
  inbox,               \* per frame agent: INJECT_PROMPT messages delivered, not yet handled
  lastClick,           \* the last call of createPrompt: its arguments and its result
  broadcast,           \* dispatcher: the tabs and the sends of the last broadcastMessage
  processedActionIds,  \* per frame agent: the Set, in insertion order
  isInitialPolling,    \* per frame agent
  fastPollIntervalId,  \* per frame agent: TRUE while the fast interval is armed
  initStartTime,       \* per frame agent
  readyState,          \* per frame agent: document.readyState
  calls,               \* per frame agent and slot: the invocation in flight
  attemptLog,          \* per frame agent: actionIds that passed injectPrompt's guard, in order
  reports,             \* per frame agent: outcome reports sent by notifyBackground, in order
  seen,                \* per frame agent: actionIds of the well-formed records polls have read
  terminal,            \* per frame agent: <<actionId, terminal state>> pairs reached
  relayProcessed,      \* side-panel relay: processedActionIds, in insertion order
  relayPosts,          \* side-panel relay: actionIds posted to the frame, in order
  relayReply,          \* side-panel relay: the last sendResponse, and what the frame was
  panel,               \* dispatcher: the openSidePanel invocation in flight
  openLog,             \* dispatcher: the open attempts of that invocation, in order
  hta,                 \* dispatcher: the listener invocation in flight
  document,            \* a frame's candidate input elements, in document order
  textarea,            \* findTextarea: its attempt, and the index it returned, 0 for
                       \* null, -1 while it has not returned
  injection,           \* the call of injectPrompt in flight or returned last, in
                       \* SpecInject
  userStore,           \* chrome.storage.local[USER_DETAILS]
  lastVisit,           \* chrome.storage.local[LAST_VISIT]
  userCall,            \* the last call of userDetails and how it ended
  sidepanel            \* side panel page: refreshDebounceTimer, the overlay, the frame

vars == <<now, storage, stored, rounds, inbox, lastClick, broadcast, processedActionIds,
          isInitialPolling, fastPollIntervalId, initStartTime, readyState, calls,
          attemptLog, reports, seen, terminal, relayProcessed, relayPosts,
          relayReply,
          panel, openLog, hta, document, textarea, injection, userStore, lastVisit, userCall,
          sidepanel>>

(***************************************************************************)
(* Bounds of the model.                                                    *)
(***************************************************************************)
\* context-menu clicks that store an action, in Spec and SpecSystem
MaxActions == 1
\* fragments per selection text, in SpecText
MaxFrags == 3
\* length of the run of plain characters used to reach the length clamp
BlockLen == 49998
\* context-menu clicks that store an action, in SpecIds
LongRun == 102
\* clicks on the context menu or the toolbar icon, in SpecHandler
MaxClicks == 2
\* actions whose messages reach the relay, in SpecRelay
MaxMessages == 3
\* candidate input elements of a document, in SpecDom
MaxElements == 2
\* calls of refreshArenaFrame, in SpecRefresh
MaxRequests == 4
\* overlay transition timers pending at once, in SpecRefresh
MaxTransitions == 2
\* actions stored one after the other, in SpecRace
MaxWrites == 2
\* calls of injectPrompt, in SpecInject
MaxInjections == 2
\* reads of the record after which a storage delete can still fail, in SpecFault
MaxReads == 3
\* tabs returned by chrome.tabs.query, in SpecBroadcast
MaxTabs == 3
\* calls of broadcastMessage, in SpecBroadcast
MaxRounds == 2

(***************************************************************************)
(* Program constants.                                                      *)
(***************************************************************************)
MAX_SELECTION_LENGTH == 50000
ACTION_EXPIRY_MS == 60000
CONFIG_ACTION_EXPIRY == 30000
INITIAL_POLL_DURATION == 10000
CLEANUP_THRESHOLD == 100
CLEANUP_KEEP == 50
BROADCAST_ROUNDS == 5
MAX_RETRY_ATTEMPTS == 5
MAX_TEXTAREA_ATTEMPTS == 15
MAX_STRING_LENGTH == 10000
MAX_NAME_LENGTH == 255
MAX_EMAIL_LENGTH == 320
MAX_LABEL_LENGTH == 63
TAB_ID_NONE == -1
WINDOW_ID_NONE == -1

Min(S) == CHOOSE x \in S : \A y \in S : x <= y

(***************************************************************************)
(* Text.  A string is a sequence of runs <<c, n>>: the character c         *)
(* repeated n times.  Every character is its own run of length 1, except   *)
(* the plain filler character "x", whose runs may be long: no pattern of   *)
(* the sanitizer names "x", so no match ever begins or ends inside a run.  *)
(***************************************************************************)
Str(chars) == [i \in DOMAIN chars |-> <<chars[i], 1>>]

RECURSIVE Length(_)
Length(t) == IF t = <<>> THEN 0 ELSE t[1][2] + Length(Tail(t))

ToLower == [c \in {"J", "S", "C", "R", "I", "P", "T", "O", "N"} |->
              CASE c = "J" -> "j" [] c = "S" -> "s" [] c = "C" -> "c"
                [] c = "R" -> "r" [] c = "I" -> "i" [] c = "P" -> "p"
                [] c = "T" -> "t" [] c = "O" -> "o" [] c = "N" -> "n"]

\* case folding of the i flag
Lower(c) == IF c \in DOMAIN ToLower THEN ToLower[c] ELSE c

\* \w
WordChars == {"a", "b", "c", "d", "e", "f", "g", "h", "i", "j", "k", "l", "m",
              "n", "o", "p", "q", "r", "s", "t", "u", "v", "w", "x", "y", "z",
              "J", "S", "C", "R", "I", "P", "T", "O", "N",
              "0", "1", "2", "3", "4", "5", "6", "7", "8", "9", "_"}

\* \s
SpaceChars == {" ", "\n", "\t"}

\* String.prototype.trim
RECURSIVE TrimLeft(_)
TrimLeft(t) == IF t # <<>> /\ t[1][1] \in SpaceChars THEN TrimLeft(Tail(t)) ELSE t

RECURSIVE TrimRight(_)
TrimRight(t) ==
  IF t # <<>> /\ t[Len(t)][1] \in SpaceChars THEN TrimRight(SubSeq(t, 1, Len(t) - 1)) ELSE t

Trim(t) == TrimRight(TrimLeft(t))

\* String.prototype.substring(0, max)
RECURSIVE Substring0(_, _)
Substring0(t, max) ==
  IF t = <<>> \/ max <= 0 THEN <<>>
  ELSE IF t[1][2] <= max THEN <<t[1]>> \o Substring0(Tail(t), max - t[1][2])
  ELSE << <<t[1][1], max>> >>

\* the literal lit (lower case) matches t at position i, under the i flag
MatchLit(t, i, lit) ==
  /\ i + Len(lit) - 1 <= Len(t)
  /\ \A k \in 1..Len(lit) : t[i + k - 1][2] = 1 /\ Lower(t[i + k - 1][1]) = lit[k]

\* the last position of the longest run of characters of S that starts at i (i - 1 if none)
RECURSIVE RunEnd(_, _, _)
RunEnd(t, i, S) == IF i <= Len(t) /\ t[i][1] \in S THEN RunEnd(t, i + 1, S) ELSE i - 1

LitScriptOpen == <<"<", "s", "c", "r", "i", "p", "t">>
LitScriptClose == <<"<", "/", "s", "c", "r", "i", "p", "t", ">">>
LitJavascript == <<"j", "a", "v", "a", "s", "c", "r", "i", "p", "t", ":">>
LitOn == <<"o", "n">>

\* MatchEnd(re, t, i): the last position of the match of pattern re that begins at
\* position i of t, or 0 when none begins there.
\*  "script"  the script-block pattern of line 48: "<script", a word boundary, then any
\*            text up to and including the first "</script>" after it (its group cannot
\*            step over a "<" that opens "</script>"); i flag.
\*  "tag"     the tag pattern of line 49: "<", at least one character other than ">",
\*            then the first ">".
\*  "js"      the literal "javascript:" of line 50; i flag.
\*  "on"      the handler pattern of line 51: "on", one or more word characters, any
\*            white space, "="; i flag.  Both repetitions are greedy, and giving back a
\*            word character never helps, as neither white space nor "=" matches it.
MatchEnd(re, t, i) ==
  CASE re = "script" ->
         IF /\ MatchLit(t, i, LitScriptOpen)
            /\ (i + 7 > Len(t) \/ t[i + 7][1] \notin WordChars)
         THEN LET closes == {j \in (i + 7)..Len(t) : MatchLit(t, j, LitScriptClose)}
              IN  IF closes = {} THEN 0 ELSE Min(closes) + 8
         ELSE 0
    [] re = "tag" ->
         IF t[i][1] = "<"
         THEN LET gts == {j \in (i + 1)..Len(t) : t[j][1] = ">"}
              IN  IF gts # {} /\ Min(gts) >= i + 2 THEN Min(gts) ELSE 0
         ELSE 0
    [] re = "js" ->
         IF MatchLit(t, i, LitJavascript) THEN i + 10 ELSE 0
    [] re = "on" ->
         IF MatchLit(t, i, LitOn) /\ RunEnd(t, i + 2, WordChars) >= i + 2
         THEN LET s == RunEnd(t, RunEnd(t, i + 2, WordChars) + 1, SpaceChars)
              IN  IF s + 1 <= Len(t) /\ t[s + 1][1] = "=" THEN s + 1 ELSE 0
         ELSE 0

\* String.prototype.replace(re, '') with the g flag: leftmost matches, left to right, one pass
RECURSIVE ReplaceFrom(_, _, _)
ReplaceFrom(re, t, i) ==
  IF i > Len(t) THEN <<>>
  ELSE IF MatchEnd(re, t, i) > 0 THEN ReplaceFrom(re, t, MatchEnd(re, t, i) + 1)
  ELSE <<t[i]>> \o ReplaceFrom(re, t, i + 1)

\* mutant: the script-block pattern is dropped, tags are stripped one by one
ReplaceNoScript(re, t) == IF re = "script" THEN t ELSE ReplaceFrom(re, t, 1)

Replace(re, t) == ReplaceFrom(re, t, 1)

\* String.prototype.substring(0, MAX_SELECTION_LENGTH)
Clamp(t) == Substring0(t, MAX_SELECTION_LENGTH)

sanitizeSelection(text) ==
  IF text = <<>> THEN <<>>
  ELSE Replace("on", Replace("js", Replace("tag", Replace("script", Clamp(Trim(text))))))

PROMPT_TEMPLATES ==
  [summarize |-> Str(<<"S", "u", "m", "m", "a", "r", "i", "z", "e", " ", "t", "h", "e", " ",
                       "f", "o", "l", "l", "o", "w", "i", "n", "g", " ", "t", "e", "x", "t",
                       ":", "\n", "\n">>),
   explain   |-> Str(<<"E", "x", "p", "l", "a", "i", "n", " ", "t", "h", "i", "s", " ", "c",
                       "o", "n", "c", "e", "p", "t", " ", "i", "n", " ", "s", "i", "m", "p",
                       "l", "e", " ", "t", "e", "r", "m", "s", ":", "\n", "\n">>),
   rewrite   |-> Str(<<"R", "e", "w", "r", "i", "t", "e", " ", "a", "n", "d", " ", "i", "m",
                       "p", "r", "o", "v", "e", " ", "t", "h", "e", " ", "f", "o", "l", "l",
                       "o", "w", "i", "n", "g", " ", "t", "e", "x", "t", ":", "\n", "\n">>)]

\* mutant: an unknown action type yields no prompt
createPromptStrict(action, selectedText) ==
  IF sanitizeSelection(selectedText) = <<>> \/ action \notin DOMAIN PROMPT_TEMPLATES
  THEN <<>>
  ELSE PROMPT_TEMPLATES[action] \o sanitizeSelection(selectedText)

createPrompt(action, selectedText) ==
  LET sanitized == sanitizeSelection(selectedText)
  IN  IF sanitized = <<>> THEN <<>>
      ELSE IF action \notin DOMAIN PROMPT_TEMPLATES THEN sanitized
      ELSE PROMPT_TEMPLATES[action] \o sanitized

(***************************************************************************)
(* The storage wrapper and the user details.  A JavaScript value is a      *)
(* record: its type, its text when it is a string, and whether new Date()  *)
(* of that text is a valid date.                                           *)
(***************************************************************************)
JsString(t) == [type |-> "string", text |-> t, parses |-> FALSE]
JsDate(t) == [type |-> "string", text |-> t, parses |-> TRUE]
JsNull == [type |-> "null", text |-> <<>>, parses |-> FALSE]
JsNumber == [type |-> "number", text |-> <<>>, parses |-> FALSE]

\* a details object; kind is "object", "undefined" or "other" (a truthy non-object)
Details(kind, name, email, lastActive) ==
  [kind |-> kind, name |-> name, email |-> email, lastActive |-> lastActive]

NoDetails == Details("undefined", JsNull, JsNull, JsNull)

\* CONFIG.DEFAULTS.USER_DETAILS
DEFAULT_USER_DETAILS == Details("object", JsString(<<>>), JsString(<<>>), JsNull)

\* new Date().toISOString()
IsoNow ==
  JsDate(Str(<<"2", "0", "2", "6", "-", "1", "1", "-", "0", "3", "T", "0", "8", ":", "0",
               "0", ":", "0", "0", ".", "0", "0", "0", "Z">>))

NoUserCall == [op |-> "none", threw |-> FALSE, value |-> NoDetails, arg |-> NoDetails,
               failed |-> FALSE]

\* the characters of the last replace of sanitizeData and sanitizeInput
StripChars == {"<", ">", "'", "\"", "&"}

StripSpecial(t) == SelectSeq(t, LAMBDA r : r[1] \notin StripChars)

\* the chain of replaces shared by sanitizeData and sanitizeInput
Scrub(t) ==
  StripSpecial(Replace("on", Replace("js", Replace("tag", Replace("script", t)))))

\* sanitizeData on a string
sanitizeString(t) == Substring0(Scrub(t), MAX_STRING_LENGTH)

\* sanitizeData on a value: strings are scrubbed, null and finite numbers are kept
sanitizeValue(v) == IF v.type = "string" THEN [v EXCEPT !.text = sanitizeString(v.text)] ELSE v

\* sanitizeData on a details object
sanitizeData(details) ==
  [details EXCEPT !.name = sanitizeValue(details.name),
                  !.email = sanitizeValue(details.email),
                  !.lastActive = sanitizeValue(details.lastActive)]

\* sanitizeInput of user-details.js
sanitizeInput(input, maxLength) ==
  IF input.type # "string" THEN JsString(<<>>)
  ELSE JsString(Substring0(Scrub(Trim(input.text)), maxLength))

isValidISODate(dateString) == dateString.parses

validateUserDetailsNoDate(details) ==
  /\ details.kind = "object"
  /\ details.name.type = "string" /\ Length(details.name.text) <= MAX_NAME_LENGTH
  /\ details.email.type = "string" /\ Length(details.email.text) <= MAX_EMAIL_LENGTH

validateUserDetails(details) ==
  /\ details.kind = "object"
  /\ LET hasValidName == /\ details.name.type = "string"
                         /\ Length(details.name.text) <= MAX_NAME_LENGTH
         hasValidEmail == /\ details.email.type = "string"
                          /\ Length(details.email.text) <= MAX_EMAIL_LENGTH
         hasValidLastActive == \/ details.lastActive.type = "null"
                               \/ /\ details.lastActive.type = "string"
                                  /\ isValidISODate(details.lastActive)
     IN  hasValidName /\ hasValidEmail /\ hasValidLastActive

\* the character classes of CONFIG.VALIDATION.EMAIL_REGEX (the grave accent of the
\* local class is left out: it cannot be written in a string here)
AlnumChars == WordChars \ {"_"}
LocalChars ==
  WordChars \cup {".", "!", "#", "$", "%", "&", "'", "*", "+", "/", "=", "?", "^",
                  "{", "|", "}", "~", "-"}

\* CONFIG.VALIDATION.EMAIL_REGEX.test(t): a local part, "@", then labels separated by
\* dots; a label begins and ends with a letter or digit and has at most 63 characters
EmailMatch(t) ==
  \E at \in DOMAIN t :
    /\ t[at] = <<"@", 1>>
    /\ at > 1 /\ at < Len(t)
    /\ \A i \in 1..(at - 1) : t[i][1] \in LocalChars
    /\ \A i \in (at + 1)..Len(t) : t[i][1] \in AlnumChars \cup {"-", "."}
    /\ t[at + 1][1] \in AlnumChars /\ t[Len(t)][1] \in AlnumChars
    /\ \A i \in (at + 1)..Len(t) :
         t[i][1] = "." => /\ t[i][2] = 1
                          /\ t[i - 1][1] \in AlnumChars
                          /\ t[i + 1][1] \in AlnumChars
    /\ \A i, j \in (at + 1)..Len(t) :
         (i <= j /\ \A k \in i..j : t[k][1] # ".")
           => Length(SubSeq(t, i, j)) <= MAX_LABEL_LENGTH

validateEmailAny(email) == TRUE

validateEmail(email) ==
  IF email.type # "string" \/ email.text = <<>> THEN TRUE ELSE EmailMatch(email.text)

(***************************************************************************)
(* The side panel page: the refresh control and the loading overlay.       *)
(***************************************************************************)
\* the page after initialize: the overlay of the first load with its timeout
PanelLoaded ==
  [refreshDebounceTimer |-> FALSE, loadTimeout |-> TRUE, display |-> "flex",
   hidden |-> FALSE, transitionTimers |-> 0, srcAssignments |-> 0, requests |-> 0,
   key |-> ""]

(***************************************************************************)
(* The relay protocol.                                                     *)
(***************************************************************************)
\* the frame agents: the page embedded in the side panel, and the same site open in a tab
Contexts == {"frame", "tab"}

\* the frame agents that chrome.tabs.query and chrome.tabs.sendMessage reach
Tabs == {"tab"}

\* per frame agent, the invocations the model follows at one time: a check started by the
\* fast interval, one started by the steady interval or a one-shot timer, the check of
\* the load listener, and one INJECT_PROMPT handler
Slots == {"fast", "poll", "load", "msg"}

PollSlots == {"fast", "poll", "load"}

\* the instants at which the clock is observed
TimePoints == {0, 35000, ACTION_EXPIRY_MS, ACTION_EXPIRY_MS + 1}

NoRecord == [prompt |-> <<>>, timestamp |-> 0, id |-> 0]

Idle == [pc |-> "idle", id |-> 0]

NoClick == [action |-> "", selection |-> <<>>, prompt |-> <<>>]

Hello == Str(<<"h", "e", "l", "l", "o">>)

\* the relay has not answered yet
NoReply == [actionId |-> 0, success |-> FALSE, reason |-> "", frameReady |-> FALSE]

\* no openSidePanel invocation; a tab or window id of 0 stands for a falsy one
NoCall ==
  [pc |-> "idle", phase |-> "call", retryCount |-> 0, tabId |-> 0, windowId |-> 0,
   activeId |-> 0, result |-> "none"]

\* no listener invocation
NoListener == [pc |-> "idle", action |-> "", selection |-> <<>>, id |-> 0, clicks |-> 0]

\* broadcastMessage has not been called
NoBroadcast ==
  [pc |-> "idle", tabs |-> <<>>, attempted |-> {}, pending |-> {}, failed |-> {},
   rejected |-> FALSE, calls |-> 0]

\* Set.prototype.has on the insertion-ordered set
Has(set, id) == \E i \in DOMAIN set : set[i] = id

Count(log, id) == Cardinality({i \in DOMAIN log : log[i] = id})

Last(log) == log[Len(log)]

\* the state after construction; the content script of an agent of A starts while its
\* document is loading or after it is complete, the other agents are past their start
Start(A) ==
  /\ now = 0
  /\ storage = NoRecord
  /\ stored = <<>>
  /\ rounds = <<>>
  /\ inbox = [c \in Contexts |-> {}]
  /\ lastClick = NoClick
  /\ broadcast = NoBroadcast
  /\ processedActionIds = [c \in Contexts |-> <<>>]
  /\ isInitialPolling = [c \in Contexts |-> TRUE]
  /\ fastPollIntervalId = [c \in Contexts |-> TRUE]
  /\ initStartTime = [c \in Contexts |-> 0]
  /\ readyState \in {f \in [Contexts -> {"loading", "complete"}] :
                       \A c \in Contexts \ A : f[c] = "complete"}
  /\ calls = [c \in Contexts |-> [s \in Slots |-> Idle]]
  /\ attemptLog = [c \in Contexts |-> <<>>]
  /\ reports = [c \in Contexts |-> <<>>]
  /\ seen = [c \in Contexts |-> <<>>]
  /\ terminal = [c \in Contexts |-> {}]
  /\ relayProcessed = <<>>
  /\ relayPosts = <<>>
  /\ relayReply = NoReply
  /\ panel = NoCall
  /\ openLog = <<>>
  /\ hta = NoListener

\* findTextarea has not been called
NotSearched == [attempt |-> 0, result |-> -1]

\* no element
NoElement ==
  [tag |-> "none", placeholder |-> FALSE, contentEditable |-> FALSE, disabled |-> FALSE,
   readOnly |-> FALSE, sized |-> FALSE, display |-> "none", visibility |-> "hidden",
   label |-> "none"]

\* injectPrompt has not been called
NoInjection ==
  [pc |-> "idle", actionId |-> 0, written |-> NoElement, clicked |-> NoElement,
   threw |-> FALSE, report |-> "none", sendFailed |-> FALSE, result |-> "none",
   calls |-> 0]

\* no document is being searched
DomIdle == document = <<>> /\ textarea = NotSearched /\ injection = NoInjection

\* userDetails has not been called and nothing is stored under its keys
UserIdle == userStore = NoDetails /\ lastVisit = JsNull /\ userCall = NoUserCall

\* the side panel page after initialize: overlay shown, its timeout armed
UiIdle == sidepanel = PanelLoaded

\* the parts of the program a specification leaves out are at rest
AuxIdle == DomIdle /\ UserIdle /\ UiIdle

agentVars == <<processedActionIds, isInitialPolling, fastPollIntervalId, initStartTime,
               readyState, calls, attemptLog, reports, seen, terminal>>
relayVars == <<relayProcessed, relayPosts, relayReply>>
bgVars == <<stored, rounds, lastClick, broadcast>>
coreVars == <<now, storage, bgVars, inbox, agentVars, relayVars>>
handlerVars == <<panel, openLog, hta>>
domVars == <<document, textarea, injection>>
userVars == <<userStore, lastVisit, userCall>>
uiVars == <<sidepanel>>
auxVars == <<domVars, userVars, uiVars>>
extVars == <<handlerVars, auxVars>>

\* time passes
Tick ==
  /\ \E t \in TimePoints : t > now /\ now' = t
  /\ UNCHANGED <<storage, bgVars, inbox, agentVars, relayVars, extVars>>

(***************************************************************************)
(* Background dispatcher.                                                  *)
(***************************************************************************)
storePendingActionIfEmpty(prompt) ==
  IF storage # NoRecord THEN storage
  ELSE [prompt |-> prompt, timestamp |-> now, id |-> Len(stored) + 1]

\* the record storePendingAction writes; generateUUID is a fresh identifier
storePendingAction(prompt) ==
  [prompt |-> prompt, timestamp |-> now, id |-> Len(stored) + 1]

isEmptyPromptNever(prompt) == FALSE

\* the test of the prompt in handleTextAction
isEmptyPrompt(prompt) == prompt = <<>>

\* mutant: the record is stored whether the panel opened or not
HandleTextActionUnguarded(action, selectedText, panelOpened) ==
  LET prompt == createPrompt(action, selectedText)
  IN  /\ lastClick' = [action |-> action, selection |-> selectedText, prompt |-> prompt]
      /\ IF prompt = <<>>
         THEN UNCHANGED <<storage, stored, rounds>>
         ELSE /\ storage' = storePendingAction(prompt)
              /\ stored' = Append(stored, storePendingAction(prompt))
              /\ rounds' = Append(rounds, 0)
      /\ UNCHANGED <<now, inbox, broadcast, agentVars, relayVars, auxVars>>

\* handleTextAction up to its first timer: open the panel, build the prompt, return if
\* it is empty, store the record
HandleTextAction(action, selectedText, panelOpened) ==
  LET prompt == createPrompt(action, selectedText)
  IN  /\ IF ~panelOpened
         THEN UNCHANGED <<lastClick, storage, stored, rounds>>
         ELSE /\ lastClick' = [action |-> action, selection |-> selectedText,
                               prompt |-> prompt]
              /\ IF isEmptyPrompt(prompt)
                 THEN UNCHANGED <<storage, stored, rounds>>
                 ELSE /\ storage' = storePendingAction(prompt)
                      /\ stored' = Append(stored, storePendingAction(prompt))
                      /\ rounds' = Append(rounds, 0)
      /\ UNCHANGED <<now, inbox, broadcast, agentVars, relayVars, auxVars>>

\* mutant: a round announces the record that is in storage when it is sent
BroadcastStored(id, D) ==
  /\ rounds[id] < BROADCAST_ROUNDS
  /\ \A c \in D : c \in Tabs /\ readyState[c] # "loading"
  /\ rounds' = [rounds EXCEPT ![id] = @ + 1]
  /\ inbox' = [c \in Contexts |-> IF c \in D THEN inbox[c] \cup {storage.id} ELSE inbox[c]]
  /\ UNCHANGED <<now, storage, stored, lastClick, broadcast, agentVars, relayVars, auxVars>>

\* one round of broadcastMessage for action id: the sends reach the tab agents of D,
\* which have their message listener registered
Broadcast(id, D) ==
  /\ rounds[id] < BROADCAST_ROUNDS
  /\ \A c \in D : c \in Tabs /\ readyState[c] # "loading"
  /\ rounds' = [rounds EXCEPT ![id] = @ + 1]
  /\ inbox' = [c \in Contexts |-> IF c \in D THEN inbox[c] \cup {id} ELSE inbox[c]]
  /\ UNCHANGED <<now, storage, stored, lastClick, broadcast, agentVars, relayVars, auxVars>>

(***************************************************************************)
(* Background dispatcher: the sends of one broadcastMessage.               *)
(***************************************************************************)
\* the test of tab.id before chrome.tabs.sendMessage; 0 stands for a missing id
hasValidId(id) == id # 0 /\ id # TAB_ID_NONE

\* mutant: a rejected send is not caught and rejects broadcastMessage
settleUncaught(b, i, ok) ==
  IF ok THEN [b EXCEPT !.pending = @ \ {i}]
  ELSE [b EXCEPT !.pc = "done", !.pending = @ \ {i}, !.failed = @ \cup {i},
                 !.rejected = TRUE]

\* the send to tab i settles: a rejection is caught in the callback of tabs.map
settle(b, i, ok) ==
  IF ok THEN [b EXCEPT !.pending = @ \ {i}]
  ELSE [b EXCEPT !.pending = @ \ {i}, !.failed = @ \cup {i}]

\* broadcastMessage up to Promise.allSettled: chrome.tabs.query settles, and the
\* callback of tabs.map calls chrome.tabs.sendMessage for every tab with a valid id;
\* a query that throws is caught and logged
TabsQueried(tabs, threw) ==
  /\ broadcast.pc \in {"idle", "done"}
  /\ broadcast.calls < MaxRounds
  /\ LET valid == IF threw THEN {} ELSE {i \in DOMAIN tabs : hasValidId(tabs[i])}
     IN  broadcast' = [pc |-> IF threw THEN "done" ELSE "sending",
                       tabs |-> IF threw THEN <<>> ELSE tabs,
                       attempted |-> valid, pending |-> valid, failed |-> {},
                       rejected |-> FALSE, calls |-> broadcast.calls + 1]
  /\ UNCHANGED <<now, storage, stored, rounds, lastClick, inbox, agentVars, relayVars,
                 extVars>>

\* one chrome.tabs.sendMessage settles
SendSettled(i, ok) ==
  /\ broadcast.pc = "sending"
  /\ i \in broadcast.pending
  /\ broadcast' = settle(broadcast, i, ok)
  /\ UNCHANGED <<now, storage, stored, rounds, lastClick, inbox, agentVars, relayVars,
                 extVars>>

\* Promise.allSettled resolves and broadcastMessage returns
AllSettled ==
  /\ broadcast.pc = "sending"
  /\ broadcast.pending = {}
  /\ broadcast' = [broadcast EXCEPT !.pc = "done"]
  /\ UNCHANGED <<now, storage, stored, rounds, lastClick, inbox, agentVars, relayVars,
                 extVars>>

(***************************************************************************)
(* Background dispatcher: opening the side panel.                          *)
(***************************************************************************)
\* the ids a click can carry: falsy, the NONE constant, a real id
TabIds == {0, TAB_ID_NONE, 7}
WindowIds == {0, WINDOW_ID_NONE, 3}
\* tabs[0]?.id of the active-tab query
ActiveIds == {0, 7}

\* the first strategy of openSidePanel that applies
firstStrategy(tabId, windowId) ==
  IF tabId # 0 THEN "byTab" ELSE IF windowId # 0 THEN "byWindow" ELSE "query"

\* openSidePanel is entered
openSidePanel(tabId, windowId) ==
  [pc |-> firstStrategy(tabId, windowId), phase |-> "call", retryCount |-> 0,
   tabId |-> tabId, windowId |-> windowId, activeId |-> 0, result |-> "none"]

\* the id the strategy in progress passes to chrome.sidePanel.open
target(p) ==
  CASE p.pc = "byTab" -> p.tabId
    [] p.pc = "byWindow" -> p.windowId
    [] p.pc = "byActive" -> p.activeId
    [] OTHER -> 0

\* the id test of openSidePanelByTab and openSidePanelByWindow
isValidId(id) == id >= 0 /\ id # TAB_ID_NONE /\ id # WINDOW_ID_NONE

mayRetryNever(retryCount) == FALSE

\* mutant: one retry more
mayRetryOnceMore(retryCount) == retryCount <= MAX_RETRY_ATTEMPTS

\* the retry test in the catch block
mayRetry(retryCount) == retryCount < MAX_RETRY_ATTEMPTS

\* openSidePanel goes on after a strategy returned false
afterStrategy(p) ==
  CASE p.pc = "byTab" /\ p.windowId # 0 ->
         [p EXCEPT !.pc = "byWindow", !.phase = "call", !.retryCount = 0]
    [] p.pc \in {"byTab", "byWindow"} ->
         [p EXCEPT !.pc = "query", !.phase = "call", !.retryCount = 0]
    [] OTHER -> [p EXCEPT !.pc = "done", !.result = "false"]

\* one pass through the try block of openSidePanelByTab or openSidePanelByWindow: the
\* id test throws, or chrome.sidePanel.open settles
OpenSettled(ok) ==
  /\ panel.pc \in {"byTab", "byWindow", "byActive"}
  /\ panel.phase = "call"
  /\ ok => isValidId(target(panel))
  /\ openLog' = Append(openLog, [method |-> panel.pc, retryCount |-> panel.retryCount,
                                 ok |-> ok])
  /\ panel' = IF ok THEN [panel EXCEPT !.pc = "done", !.result = "true"]
              ELSE IF mayRetry(panel.retryCount)
                   THEN [panel EXCEPT !.phase = "retryWait"]
                   ELSE afterStrategy(panel)
  /\ UNCHANGED <<coreVars, hta, auxVars>>

\* the RETRY_DELAY timer fires and the strategy calls itself again
RetryTimer ==
  /\ panel.phase = "retryWait"
  /\ panel' = [panel EXCEPT !.phase = "call", !.retryCount = @ + 1]
  /\ UNCHANGED <<coreVars, openLog, hta, auxVars>>

\* the active-tab query of method 3 settles
QuerySettled(threw, id) ==
  /\ panel.pc = "query"
  /\ panel' = IF ~threw /\ id # 0
              THEN [panel EXCEPT !.pc = "byActive", !.activeId = id]
              ELSE [panel EXCEPT !.pc = "done", !.result = "false"]
  /\ UNCHANGED <<coreVars, openLog, hta, auxVars>>

(***************************************************************************)
(* Background dispatcher: the listeners.                                   *)
(***************************************************************************)
\* chrome.action.onClicked
ActionClicked(tabId, windowId) ==
  /\ hta.pc = "idle"
  /\ hta.clicks < MaxClicks
  /\ ~(tabId = 0 /\ windowId = 0)
  /\ panel' = openSidePanel(tabId, windowId)
  /\ openLog' = <<>>
  /\ hta' = [NoListener EXCEPT !.pc = "openOnly", !.clicks = hta.clicks + 1]
  /\ UNCHANGED <<coreVars, auxVars>>

\* chrome.contextMenus.onClicked up to the first await
ContextMenuClicked(menuItemId, selectionText, tabId, windowId) ==
  /\ hta.pc = "idle"
  /\ hta.clicks < MaxClicks
  /\ ~(tabId = 0 /\ windowId = 0)
  /\ panel' = openSidePanel(tabId, windowId)
  /\ openLog' = <<>>
  /\ hta' = [pc |-> IF menuItemId = "openCompanion" THEN "openOnly" ELSE "open",
             action |-> menuItemId, selection |-> selectionText, id |-> 0,
             clicks |-> hta.clicks + 1]
  /\ UNCHANGED <<coreVars, auxVars>>

\* the listener goes on after an openSidePanel whose result it does not use
ListenerReturn ==
  /\ hta.pc \in {"openOnly", "recovery"}
  /\ panel.pc = "done"
  /\ hta' = [hta EXCEPT !.pc = "idle"]
  /\ UNCHANGED <<coreVars, panel, openLog, auxVars>>

proceedAlways(result) == TRUE

\* the test of panelOpened in handleTextAction
proceeds(result) == result = "true"

\* handleTextAction goes on after its openSidePanel: it throws and the catch block opens
\* the panel again; or it builds the prompt, returns if it is empty, and stores the record
HandleTextActionResume ==
  /\ hta.pc = "open"
  /\ panel.pc = "done"
  /\ HandleTextAction(hta.action, hta.selection, proceeds(panel.result))
  /\ IF ~proceeds(panel.result)
     THEN /\ hta' = [hta EXCEPT !.pc = "recovery"]
          /\ panel' = openSidePanel(panel.tabId, panel.windowId)
          /\ openLog' = <<>>
     ELSE /\ hta' = IF isEmptyPrompt(createPrompt(hta.action, hta.selection))
                    THEN [hta EXCEPT !.pc = "idle"]
                    ELSE [hta EXCEPT !.pc = "wait1000", !.id = Len(stored) + 1]
          /\ UNCHANGED <<panel, openLog>>

\* the 1000 ms timer fires: the initial broadcast, then the delayed ones are scheduled
InitialBroadcast ==
  /\ hta.pc = "wait1000"
  /\ \E D \in SUBSET Tabs : Broadcast(hta.id, D)
  /\ hta' = [hta EXCEPT !.pc = "idle"]
  /\ UNCHANGED <<panel, openLog>>

\* a timer of the delayed broadcasts fires
DelayedBroadcast ==
  /\ \E id \in DOMAIN rounds : rounds[id] >= 1 /\ \E D \in SUBSET Tabs : Broadcast(id, D)
  /\ UNCHANGED handlerVars

(***************************************************************************)
(* Frame agent.                                                            *)
(***************************************************************************)
\* mutant: the fast interval is cancelled by the elapsed window only
FinishOnTimeout(c, s, found) ==
  IF s = "fast" /\ now - initStartTime[c] > INITIAL_POLL_DURATION
  THEN /\ fastPollIntervalId' = [fastPollIntervalId EXCEPT ![c] = FALSE]
       /\ isInitialPolling' = [isInitialPolling EXCEPT ![c] = FALSE]
  ELSE UNCHANGED <<fastPollIntervalId, isInitialPolling>>

\* the caller's continuation when the invocation in slot s returns `found`: only the
\* callback of the fast interval looks at the result
Finish(c, s, found) ==
  IF s = "fast" /\ (now - initStartTime[c] > INITIAL_POLL_DURATION \/ found)
  THEN /\ fastPollIntervalId' = [fastPollIntervalId EXCEPT ![c] = FALSE]
       /\ isInitialPolling' = [isInitialPolling EXCEPT ![c] = FALSE]
  ELSE UNCHANGED <<fastPollIntervalId, isInitialPolling>>

\* mutant: a record is expired from the threshold on
isExpiredFromThreshold(age) == age >= ACTION_EXPIRY_MS

\* the expiry test of checkPendingActions
isExpired(age) == age > ACTION_EXPIRY_MS

\* mutant: a duplicate is left in storage
ReadBranchKeepDup(c, action) ==
  IF action.prompt = <<>> \/ action.id = 0 THEN "idle"
  ELSE IF isExpired(now - action.timestamp) THEN "rmExpired"
  ELSE IF Has(processedActionIds[c], action.id) THEN "idle"
  ELSE "rmFresh"

\* the branch checkPendingActions takes on the record its storage read returned
ReadBranch(c, action) ==
  IF action.prompt = <<>> \/ action.id = 0 THEN "idle"
  ELSE IF isExpired(now - action.timestamp) THEN "rmExpired"
  ELSE IF Has(processedActionIds[c], action.id) THEN "rmDup"
  ELSE "rmFresh"

\* checkPendingActions in slot s, from the completion of its storage read up to its
\* storage delete; resumed is the agent's slots as the same event leaves the others
ReadStep(c, s, resumed) ==
  LET action == storage
      branch == ReadBranch(c, action)
  IN  /\ calls' = [calls EXCEPT ![c] = [resumed EXCEPT ![s] =
                     IF branch = "idle" THEN Idle ELSE [pc |-> branch, id |-> action.id]]]
      /\ seen' = IF branch = "idle" THEN seen
                 ELSE [seen EXCEPT ![c] = Append(@, action.id)]
      /\ terminal' = CASE branch = "rmExpired" ->
                            [terminal EXCEPT ![c] = @ \cup {<<action.id, "expired">>}]
                       [] branch = "rmDup" ->
                            [terminal EXCEPT ![c] = @ \cup {<<action.id, "duplicate">>}]
                       [] OTHER -> terminal
      /\ IF branch = "idle" THEN Finish(c, s, FALSE)
         ELSE UNCHANGED <<fastPollIntervalId, isInitialPolling>>

\* a tick of the fast interval
FastTick(c) ==
  /\ fastPollIntervalId[c]
  /\ calls[c]["fast"].pc = "idle"
  /\ ReadStep(c, "fast", calls[c])
  /\ UNCHANGED <<now, storage, bgVars, inbox, relayVars, extVars, processedActionIds,
                 initStartTime, readyState, attemptLog, reports>>

\* a tick of the steady-state interval
SteadyTick(c) ==
  /\ ~isInitialPolling[c]
  /\ calls[c]["poll"].pc = "idle"
  /\ ReadStep(c, "poll", calls[c])
  /\ UNCHANGED <<now, storage, bgVars, inbox, relayVars, extVars, processedActionIds,
                 initStartTime, readyState, attemptLog, reports>>

\* the immediate check at start-up or one of the delayed one-shot checks
DelayedCheck(c) ==
  /\ calls[c]["poll"].pc = "idle"
  /\ ReadStep(c, "poll", calls[c])
  /\ UNCHANGED <<now, storage, bgVars, inbox, relayVars, extVars, processedActionIds,
                 initStartTime, readyState, attemptLog, reports>>

\* mutant: initialize without its call of startPolling
InitializeNoPolling(c) ==
  /\ readyState[c] = "loading"
  /\ readyState' = [readyState EXCEPT ![c] = "interactive"]
  /\ initStartTime' = [initStartTime EXCEPT ![c] = now]
  /\ isInitialPolling' = [isInitialPolling EXCEPT ![c] = TRUE]
  /\ UNCHANGED <<now, storage, bgVars, inbox, relayVars, extVars, processedActionIds, calls,
                 attemptLog, reports, seen, terminal, fastPollIntervalId>>

\* DOMContentLoaded, when the script started while the document was loading: initialize
Initialize(c) ==
  /\ readyState[c] = "loading"
  /\ readyState' = [readyState EXCEPT ![c] = "interactive"]
  /\ initStartTime' = [initStartTime EXCEPT ![c] = now]
  /\ isInitialPolling' = [isInitialPolling EXCEPT ![c] = TRUE]
  /\ fastPollIntervalId' = [fastPollIntervalId EXCEPT ![c] = TRUE]
  /\ UNCHANGED <<now, storage, bgVars, inbox, relayVars, extVars, processedActionIds, calls,
                 attemptLog, reports, seen, terminal>>

\* the load event: the document is complete, the load listener of the script starts a
\* check, and the checks that wait for the load go on to their 500 ms timer
WindowLoad(c) ==
  /\ readyState[c] = "interactive"
  /\ readyState' = [readyState EXCEPT ![c] = "complete"]
  /\ calls' = [calls EXCEPT ![c] = [s \in Slots |->
                 IF s = "load" THEN [pc |-> "reading", id |-> 0]
                 ELSE IF calls[c][s].pc = "waitLoad" THEN [calls[c][s] EXCEPT !.pc = "wait500"]
                 ELSE calls[c][s]]]
  /\ UNCHANGED <<now, storage, bgVars, inbox, relayVars, extVars, processedActionIds,
                 isInitialPolling, fastPollIntervalId, initStartTime, attemptLog,
                 reports, seen, terminal>>

\* the storage read of the load listener's check completes
LoadCheck(c) ==
  /\ calls[c]["load"].pc = "reading"
  /\ ReadStep(c, "load", calls[c])
  /\ UNCHANGED <<now, storage, bgVars, inbox, relayVars, extVars, processedActionIds,
                 initStartTime, readyState, attemptLog, reports>>

afterRemoveNoWait(state) == "wait500"

\* where checkPendingActions goes after the delete of a fresh record: to the wait for
\* the load event unless the document is complete, then to the 500 ms timer
afterRemove(state) == IF state # "complete" THEN "waitLoad" ELSE "wait500"

\* mutant: a duplicate is reported found and its record is left in storage
RemoveDoneKeepDup(c, s) ==
  /\ calls[c][s].pc \in {"rmExpired", "rmDup", "rmFresh"}
  /\ storage' = IF calls[c][s].pc = "rmDup" THEN storage ELSE NoRecord
  /\ IF calls[c][s].pc = "rmFresh"
     THEN /\ calls' = [calls EXCEPT ![c][s].pc = afterRemove(readyState[c])]
          /\ UNCHANGED <<fastPollIntervalId, isInitialPolling>>
     ELSE /\ calls' = [calls EXCEPT ![c][s] = Idle]
          /\ Finish(c, s, calls[c][s].pc = "rmDup")
  /\ UNCHANGED <<now, bgVars, inbox, relayVars, extVars, processedActionIds, initStartTime,
                 readyState, attemptLog, reports, seen, terminal>>

\* the awaited storage delete of checkPendingActions completes
RemoveDone(c, s) ==
  /\ calls[c][s].pc \in {"rmExpired", "rmDup", "rmFresh"}
  /\ storage' = NoRecord
  /\ IF calls[c][s].pc = "rmFresh"
     THEN /\ calls' = [calls EXCEPT ![c][s].pc = afterRemove(readyState[c])]
          /\ UNCHANGED <<fastPollIntervalId, isInitialPolling>>
     ELSE /\ calls' = [calls EXCEPT ![c][s] = Idle]
          /\ Finish(c, s, FALSE)
  /\ UNCHANGED <<now, bgVars, inbox, relayVars, extVars, processedActionIds, initStartTime,
                 readyState, attemptLog, reports, seen, terminal>>

\* mutant: a check whose delete failed returns true
RemoveFailedReturnsTrue(c, s) ==
  /\ calls[c][s].pc \in {"rmExpired", "rmDup", "rmFresh"}
  /\ Len(seen[c]) <= MaxReads
  /\ calls' = [calls EXCEPT ![c][s] = Idle]
  /\ terminal' = [terminal EXCEPT ![c] = @ \cup {<<calls[c][s].id, "check-failed">>}]
  /\ Finish(c, s, TRUE)
  /\ UNCHANGED <<now, storage, bgVars, inbox, relayVars, extVars, processedActionIds,
                 initStartTime, readyState, attemptLog, reports, seen>>

\* the awaited storage delete of checkPendingActions rejects: the catch block logs the
\* failure and returns false
RemoveFailed(c, s) ==
  /\ calls[c][s].pc \in {"rmExpired", "rmDup", "rmFresh"}
  /\ Len(seen[c]) <= MaxReads
  /\ calls' = [calls EXCEPT ![c][s] = Idle]
  /\ terminal' = [terminal EXCEPT ![c] = @ \cup {<<calls[c][s].id, "check-failed">>}]
  /\ Finish(c, s, FALSE)
  /\ UNCHANGED <<now, storage, bgVars, inbox, relayVars, extVars, processedActionIds,
                 initStartTime, readyState, attemptLog, reports, seen>>

\* a check of slot s whose storage read rejects: the catch block logs and returns false
ReadFailed(c, s) ==
  /\ s = "fast" => fastPollIntervalId[c]
  /\ calls[c][s].pc = "idle"
  /\ Finish(c, s, FALSE)
  /\ UNCHANGED <<now, storage, bgVars, inbox, relayVars, extVars, processedActionIds,
                 initStartTime, readyState, calls, attemptLog, reports, seen, terminal>>

\* mutant: injectPrompt without its duplicate guard
injectGuardNone(c, actionId) == FALSE

\* injectPrompt's duplicate guard
injectGuard(c, actionId) == Has(processedActionIds[c], actionId)

\* mutant: the identifier is not recorded
markProcessingNone(set, actionId) == set

\* Set.prototype.add
markProcessing(set, actionId) == IF Has(set, actionId) THEN set ELSE Append(set, actionId)

\* injectPrompt up to its first await, called from slot s; checkPendingActions returns
\* true whatever injectPrompt returns
InjectStart(c, s, actionId) ==
  IF injectGuard(c, actionId)
  THEN /\ calls' = [calls EXCEPT ![c][s] = Idle]
       /\ terminal' = [terminal EXCEPT ![c] = @ \cup {<<actionId, "duplicate">>}]
       /\ Finish(c, s, TRUE)
       /\ UNCHANGED <<processedActionIds, attemptLog>>
  ELSE /\ processedActionIds' = [processedActionIds EXCEPT ![c] = markProcessing(@, actionId)]
       /\ attemptLog' = [attemptLog EXCEPT ![c] = Append(@, actionId)]
       /\ calls' = [calls EXCEPT ![c][s] = [pc |-> "injecting", id |-> actionId]]
       /\ UNCHANGED <<terminal, fastPollIntervalId, isInitialPolling>>

\* the 500 ms timer of checkPendingActions fires: injectPrompt is called
TimerDone(c, s) ==
  /\ calls[c][s].pc = "wait500"
  /\ InjectStart(c, s, calls[c][s].id)
  /\ UNCHANGED <<now, storage, bgVars, inbox, relayVars, extVars, initStartTime, readyState,
                 reports, seen>>

\* handleMessage: an INJECT_PROMPT message calls injectPrompt
HandleMessage(c, actionId) ==
  /\ actionId \in inbox[c]
  /\ calls[c]["msg"].pc = "idle"
  /\ inbox' = [inbox EXCEPT ![c] = @ \ {actionId}]
  /\ InjectStart(c, "msg", actionId)
  /\ UNCHANGED <<now, storage, bgVars, relayVars, extVars, initStartTime, readyState,
                 reports, seen>>

\* the rest of injectPrompt: the input is found and written (ok) or not, the outcome is
\* reported, and the caller continues
InjectEnd(c, s, ok) ==
  /\ calls[c][s].pc = "injecting"
  /\ reports' = [reports EXCEPT ![c] = Append(@,
                   [type |-> IF ok THEN "PROMPT_INJECTED" ELSE "PROMPT_INJECTION_FAILED",
                    actionId |-> calls[c][s].id])]
  /\ terminal' = [terminal EXCEPT ![c] =
                    @ \cup {<<calls[c][s].id, IF ok THEN "injected" ELSE "injection-failed">>}]
  /\ calls' = [calls EXCEPT ![c][s] = Idle]
  /\ Finish(c, s, TRUE)
  /\ UNCHANGED <<now, storage, bgVars, inbox, relayVars, extVars, processedActionIds,
                 initStartTime, readyState, attemptLog, seen>>

\* mutant: the cleanup keeps the oldest identifiers
trimOldest(set) ==
  IF Len(set) > CLEANUP_THRESHOLD THEN SubSeq(set, 1, CLEANUP_KEEP) ELSE set

\* the body of the cleanup interval: Array.from(set).slice(-50) once size > 100
trim(set) ==
  IF Len(set) > CLEANUP_THRESHOLD
  THEN SubSeq(set, Len(set) - CLEANUP_KEEP + 1, Len(set))
  ELSE set

\* a tick of the frame agent's cleanup interval
Cleanup(c) ==
  /\ processedActionIds' = [processedActionIds EXCEPT ![c] = trim(@)]
  /\ UNCHANGED <<now, storage, bgVars, inbox, relayVars, extVars, isInitialPolling,
                 fastPollIntervalId, initStartTime, readyState, calls, attemptLog,
                 reports, seen, terminal>>

(***************************************************************************)
(* Frame agent: the search for the input element.                          *)
(***************************************************************************)
\* TEXTAREA_SELECTORS, in order: the textarea selectors with an attribute test, the
\* content-editable div selectors, the bare textarea selector
TEXTAREA_SELECTORS == <<"textarea[placeholder]", "div[contenteditable]", "textarea">>

\* element.matches(selector)
matches(selector, element) ==
  CASE selector = "textarea[placeholder]" ->
         element.tag = "textarea" /\ element.placeholder
    [] selector = "div[contenteditable]" ->
         element.tag = "div" /\ element.contentEditable
    [] OTHER -> element.tag = "textarea"

isElementUsable(element) ==
  LET isVisible == element.sized
      isNotHidden == element.display # "none" /\ element.visibility # "hidden"
      isEditable == element.contentEditable \/ (~element.disabled /\ ~element.readOnly)
  IN  isVisible /\ isNotHidden /\ isEditable

\* the first usable element of document.querySelectorAll(selector), 0 if there is none
firstUsable(doc, selector) ==
  LET usable == {i \in DOMAIN doc : matches(selector, doc[i]) /\ isElementUsable(doc[i])}
  IN  IF usable = {} THEN 0 ELSE Min(usable)

\* the loop over the selectors in one call of findTextarea
searchSelectors(doc) ==
  LET hits == {k \in DOMAIN TEXTAREA_SELECTORS :
                 firstUsable(doc, TEXTAREA_SELECTORS[k]) # 0}
  IN  IF hits = {} THEN 0 ELSE firstUsable(doc, TEXTAREA_SELECTORS[Min(hits)])

\* mutant: no retry
FindTextareaOnce ==
  /\ document # <<>>
  /\ textarea.result = -1
  /\ textarea' = [textarea EXCEPT !.result = searchSelectors(document)]
  /\ UNCHANGED <<coreVars, handlerVars, document, injection, userVars, uiVars>>

\* one call of findTextarea: it returns the element found, or waits and calls itself
\* again, or returns null after the last attempt
FindTextarea ==
  /\ document # <<>>
  /\ textarea.result = -1
  /\ LET found == searchSelectors(document)
     IN  textarea' = IF found # 0 THEN [textarea EXCEPT !.result = found]
                     ELSE IF textarea.attempt < MAX_TEXTAREA_ATTEMPTS
                          THEN [textarea EXCEPT !.attempt = @ + 1]
                          ELSE [textarea EXCEPT !.result = 0]
  /\ UNCHANGED <<coreVars, handlerVars, document, injection, userVars, uiVars>>

(***************************************************************************)
(* Frame agent: injectPrompt step by step.                                 *)
(***************************************************************************)
\* BUTTON_SELECTORS, in order: the selectors on the label or title of the button, then
\* the button with an icon that is not a stop or cancel button
BUTTON_SELECTORS == <<"button[aria-label=send]", "button:has(svg):not([aria-label=stop])">>

\* element.matches(selector) for the selectors of the send control
matchesButton(selector, element) ==
  CASE selector = "button[aria-label=send]" ->
         element.tag = "button" /\ element.label = "send"
    [] OTHER -> element.tag = "button" /\ element.label = "icon"

\* findSendButton: the first usable element of the first selector that has one, 0 for
\* null
findSendButton(doc) ==
  LET usable(k) == {i \in DOMAIN doc : /\ matchesButton(BUTTON_SELECTORS[k], doc[i])
                                       /\ isElementUsable(doc[i])}
      hits == {k \in DOMAIN BUTTON_SELECTORS : usable(k) # {}}
  IN  IF hits = {} THEN 0 ELSE Min(usable(Min(hits)))

\* mutant: a failed send is sent once more
notifyBackgroundRetry(log, type, actionId, sendFails) ==
  LET message == [type |-> type, actionId |-> actionId]
  IN  IF sendFails THEN Append(Append(log, message), message) ELSE Append(log, message)

\* notifyBackground: one call of chrome.runtime.sendMessage; sendFails: the call throws,
\* which is caught and logged
notifyBackground(log, type, actionId, sendFails) ==
  Append(log, [type |-> type, actionId |-> actionId])

\* mutant: without a send control the injection is a failure
afterFindSendButtonRequired(inj, doc, threw) ==
  LET button == findSendButton(doc)
  IN  IF threw \/ button = 0
      THEN [inj EXCEPT !.pc = "done", !.threw = threw, !.result = "false",
                       !.report = "PROMPT_INJECTION_FAILED"]
      ELSE [inj EXCEPT !.pc = "done", !.clicked = doc[button], !.result = "true",
                       !.report = "PROMPT_INJECTED"]

\* injectPrompt after its 200 ms wait: the send control is searched and clicked if there
\* is one, the success is reported and true returned; threw: clickSendButton throws and
\* the catch block reports the failure
afterFindSendButton(inj, doc, threw) ==
  LET button == findSendButton(doc)
  IN  IF threw
      THEN [inj EXCEPT !.pc = "done", !.threw = TRUE, !.result = "false",
                       !.report = "PROMPT_INJECTION_FAILED"]
      ELSE [inj EXCEPT !.pc = "done",
                       !.clicked = IF button = 0 THEN NoElement ELSE doc[button],
                       !.result = "true", !.report = "PROMPT_INJECTED"]

\* a call of injectPrompt in the tab's agent, up to its first await
InjectPromptCalled(actionId) ==
  /\ injection.pc \in {"idle", "done"}
  /\ injection.calls < MaxInjections
  /\ IF injectGuard("tab", actionId)
     THEN /\ injection' = [NoInjection EXCEPT !.pc = "done", !.actionId = actionId,
                                              !.result = "false",
                                              !.calls = injection.calls + 1]
          /\ UNCHANGED <<processedActionIds, attemptLog, textarea>>
     ELSE /\ processedActionIds' =
               [processedActionIds EXCEPT !["tab"] = markProcessing(@, actionId)]
          /\ attemptLog' = [attemptLog EXCEPT !["tab"] = Append(@, actionId)]
          /\ injection' = [NoInjection EXCEPT !.pc = "searching", !.actionId = actionId,
                                              !.calls = injection.calls + 1]
          /\ textarea' = NotSearched
  /\ UNCHANGED <<now, storage, bgVars, inbox, relayVars, handlerVars, document, userVars,
                 uiVars, isInitialPolling, fastPollIntervalId, initStartTime, readyState,
                 calls, reports, seen, terminal>>

\* a scan of findTextarea inside injectPrompt
InjectSearch == injection.pc = "searching" /\ FindTextarea

\* the page changes its elements while injectPrompt waits between two scans or for its
\* 200 ms timer
DocumentChanged(doc) ==
  /\ \/ injection.pc = "searching" /\ textarea.result = -1
     \/ injection.pc = "wait200"
  /\ doc # document
  /\ document' = doc
  /\ UNCHANGED <<coreVars, handlerVars, textarea, injection, userVars, uiVars>>

\* findTextarea has returned: without an element the failure is reported and false
\* returned, with one the value is written and the 200 ms wait starts; threw:
\* setTextareaValue throws and the catch block reports the failure
TextareaReturned(threw, sendFails) ==
  /\ injection.pc = "searching"
  /\ textarea.result # -1
  /\ textarea.result = 0 => ~threw
  /\ IF textarea.result = 0 \/ threw
     THEN /\ injection' = [injection EXCEPT !.pc = "done", !.threw = threw,
                                            !.result = "false", !.sendFailed = sendFails,
                                            !.report = "PROMPT_INJECTION_FAILED"]
          /\ reports' = [reports EXCEPT !["tab"] =
                           notifyBackground(@, "PROMPT_INJECTION_FAILED",
                                            injection.actionId, sendFails)]
     ELSE /\ ~sendFails
          /\ injection' = [injection EXCEPT !.pc = "wait200",
                                            !.written = document[textarea.result]]
          /\ UNCHANGED reports
  /\ UNCHANGED <<now, storage, bgVars, inbox, relayVars, handlerVars, document, textarea,
                 userVars, uiVars, processedActionIds, isInitialPolling,
                 fastPollIntervalId, initStartTime, readyState, calls, attemptLog, seen,
                 terminal>>

\* the 200 ms timer of injectPrompt fires: the rest of the call
SendTimerFired(threw, sendFails) ==
  /\ injection.pc = "wait200"
  /\ threw => findSendButton(document) # 0
  /\ LET inj == afterFindSendButton(injection, document, threw)
     IN  /\ injection' = [inj EXCEPT !.sendFailed = sendFails]
         /\ reports' = [reports EXCEPT !["tab"] =
                          notifyBackground(@, inj.report, injection.actionId, sendFails)]
  /\ UNCHANGED <<now, storage, bgVars, inbox, relayVars, handlerVars, document, textarea,
                 userVars, uiVars, processedActionIds, isInitialPolling,
                 fastPollIntervalId, initStartTime, readyState, calls, attemptLog, seen,
                 terminal>>

(***************************************************************************)
(* The calls of userDetails.                                               *)
(***************************************************************************)
\* userDetails.get; readFails: storage.get throws
UserGet(readFails) ==
  /\ userCall' = [op |-> "get", threw |-> FALSE, arg |-> NoDetails, failed |-> readFails,
                  value |-> IF readFails THEN DEFAULT_USER_DETAILS
                            ELSE IF userStore.kind = "undefined"
                                    \/ ~validateUserDetails(userStore)
                                 THEN DEFAULT_USER_DETAILS
                                 ELSE userStore]
  /\ UNCHANGED <<coreVars, handlerVars, domVars, uiVars, userStore, lastVisit>>

\* userDetails.save; writeFails: chrome.storage.local.set rejects inside storage.set
UserSave(details, writeFails) ==
  LET rejected == \/ ~validateUserDetails(details)
                  \/ details.email.text # <<>> /\ ~validateEmail(details.email)
      dataToSave == Details("object", sanitizeInput(details.name, MAX_NAME_LENGTH),
                            sanitizeInput(details.email, MAX_EMAIL_LENGTH), IsoNow)
  IN  /\ userCall' = [op |-> "save", threw |-> rejected \/ writeFails, arg |-> details,
                      failed |-> writeFails, value |-> NoDetails]
      /\ userStore' = IF rejected \/ writeFails THEN userStore ELSE sanitizeData(dataToSave)
      /\ UNCHANGED <<coreVars, handlerVars, domVars, uiVars, lastVisit>>

\* mutant: the error of the write is thrown again
UpdateLastVisitRethrow(writeFails) ==
  /\ userCall' = [op |-> "updateLastVisit", threw |-> writeFails, arg |-> NoDetails,
                  failed |-> writeFails, value |-> NoDetails]
  /\ lastVisit' = IF writeFails THEN lastVisit ELSE sanitizeValue(IsoNow)
  /\ UNCHANGED <<coreVars, handlerVars, domVars, uiVars, userStore>>

\* userDetails.updateLastVisit; writeFails: storage.set throws, which is caught and
\* logged
UpdateLastVisit(writeFails) ==
  /\ userCall' = [op |-> "updateLastVisit", threw |-> FALSE, arg |-> NoDetails,
                  failed |-> writeFails, value |-> NoDetails]
  /\ lastVisit' = IF writeFails THEN lastVisit ELSE sanitizeValue(IsoNow)
  /\ UNCHANGED <<coreVars, handlerVars, domVars, uiVars, userStore>>

(***************************************************************************)
(* The side panel page: refresh control, overlay, frame events.            *)
(***************************************************************************)
debouncedNever(timer) == FALSE

\* the test of refreshDebounceTimer at the head of refreshArenaFrame
debounced(timer) == timer

\* hideLoadingOverlay: the load timeout is cleared, the overlay fades and a timer of
\* OVERLAY_TRANSITION ms will set display to none
hideLoadingOverlay(p) ==
  [p EXCEPT !.loadTimeout = FALSE, !.hidden = TRUE, !.transitionTimers = @ + 1]

showLoadingOverlay(p) == [p EXCEPT !.display = "flex", !.hidden = FALSE]

\* refreshArenaFrame, called by the click listener or by the keydown listener on Enter
\* or Space; any other key does not call it
RefreshRequested(key) ==
  /\ sidepanel.requests < MaxRequests
  /\ sidepanel' =
       IF key \notin {"click", "Enter", " "} THEN sidepanel
       ELSE IF debounced(sidepanel.refreshDebounceTimer)
            THEN [sidepanel EXCEPT !.requests = @ + 1, !.key = key]
            ELSE [showLoadingOverlay(sidepanel) EXCEPT
                    !.srcAssignments = @ + 1, !.refreshDebounceTimer = TRUE,
                    !.requests = @ + 1, !.key = key]
  /\ UNCHANGED <<coreVars, handlerVars, domVars, userVars>>

\* the 1000 ms timer set by an accepted refresh fires
DebounceTimerFired ==
  /\ sidepanel.refreshDebounceTimer
  /\ sidepanel' = [sidepanel EXCEPT !.refreshDebounceTimer = FALSE]
  /\ UNCHANGED <<coreVars, handlerVars, domVars, userVars>>

\* handleIframeLoad and handleIframeError: the overlay is hidden
IframeSettled ==
  /\ sidepanel.transitionTimers < MaxTransitions
  /\ sidepanel' = hideLoadingOverlay(sidepanel)
  /\ UNCHANGED <<coreVars, handlerVars, domVars, userVars>>

\* the LOADING_OVERLAY timeout set by initializeIframe fires
LoadTimeoutFired ==
  /\ sidepanel.loadTimeout
  /\ sidepanel.transitionTimers < MaxTransitions
  /\ sidepanel' = hideLoadingOverlay(sidepanel)
  /\ UNCHANGED <<coreVars, handlerVars, domVars, userVars>>

\* a timer of hideLoadingOverlay fires
TransitionTimerFired ==
  /\ sidepanel.transitionTimers > 0
  /\ sidepanel' = [sidepanel EXCEPT !.display = "none", !.transitionTimers = @ - 1]
  /\ UNCHANGED <<coreVars, handlerVars, domVars, userVars>>

(***************************************************************************)
(* Side-panel relay.                                                       *)
(***************************************************************************)
\* handleMessage of the relay on an INJECT_PROMPT runtime message; frameReady: arenaFrame
\* and its contentWindow are there
alreadyProcessedNever(set, actionId) == FALSE

\* processedActionIds.has(message.actionId)
alreadyProcessed(set, actionId) == Has(set, actionId)

\* forwardToIframe: the posts after the call and the value it returns
forwardToIframe(posts, actionId, frameReady) ==
  IF frameReady
  THEN [posts |-> Append(posts, actionId), success |-> TRUE]
  ELSE [posts |-> posts, success |-> FALSE]

\* mutant: the actionId is marked processed only after a forward that succeeded
RelayHandleMarkAfter(actionId, frameReady) ==
  /\ actionId \in DOMAIN stored
  /\ IF alreadyProcessed(relayProcessed, actionId)
     THEN /\ relayReply' = [actionId |-> actionId, success |-> FALSE,
                            reason |-> "Already processed", frameReady |-> frameReady]
          /\ UNCHANGED <<relayProcessed, relayPosts>>
     ELSE LET forwarded == forwardToIframe(relayPosts, actionId, frameReady)
          IN  /\ relayProcessed' = IF forwarded.success
                                   THEN Append(relayProcessed, actionId)
                                   ELSE relayProcessed
              /\ relayPosts' = forwarded.posts
              /\ relayReply' = [actionId |-> actionId, success |-> forwarded.success,
                                reason |-> "", frameReady |-> frameReady]
  /\ UNCHANGED <<now, storage, bgVars, inbox, agentVars, extVars>>

\* handleMessage of the relay on an INJECT_PROMPT message
RelayHandle(actionId, frameReady) ==
  /\ actionId \in DOMAIN stored
  /\ IF alreadyProcessed(relayProcessed, actionId)
     THEN /\ relayReply' = [actionId |-> actionId, success |-> FALSE,
                            reason |-> "Already processed", frameReady |-> frameReady]
          /\ UNCHANGED <<relayProcessed, relayPosts>>
     ELSE LET forwarded == forwardToIframe(relayPosts, actionId, frameReady)
          IN  /\ relayProcessed' = Append(relayProcessed, actionId)
              /\ relayPosts' = forwarded.posts
              /\ relayReply' = [actionId |-> actionId, success |-> forwarded.success,
                                reason |-> "", frameReady |-> frameReady]
  /\ UNCHANGED <<now, storage, bgVars, inbox, agentVars, extVars>>

\* mutant: the relay's check deletes the record
RelayCheckPendingActionsConsumes ==
  /\ storage # NoRecord
  /\ storage' = NoRecord
  /\ UNCHANGED <<now, bgVars, inbox, agentVars, relayVars, extVars>>

\* checkPendingActions of the side panel page, called by its interval, by
\* handleIframeLoad and by handleVisibilityChange: it returns at once
RelayCheckPendingActions == UNCHANGED vars

\* a tick of the relay's cleanup interval
CleanupRelay ==
  /\ relayProcessed' = trim(relayProcessed)
  /\ UNCHANGED <<now, storage, bgVars, inbox, agentVars, relayPosts, relayReply, extVars>>

(***************************************************************************)
(* Spec: one frame agent in a tab, the dispatcher and the clock, under     *)
(* every interleaving.                                                     *)
(***************************************************************************)
\* the steps of frame agent c
AgentNext(c) ==
  \/ FastTick(c)
  \/ SteadyTick(c)
  \/ DelayedCheck(c)
  \/ Initialize(c)
  \/ WindowLoad(c)
  \/ LoadCheck(c)
  \/ \E s \in PollSlots : RemoveDone(c, s)
  \/ \E s \in PollSlots : TimerDone(c, s)
  \/ \E id \in DOMAIN stored : HandleMessage(c, id)
  \/ \E s \in Slots, ok \in BOOLEAN : InjectEnd(c, s, ok)

\* a round of broadcasts of a stored action
BroadcastRound ==
  /\ \E id \in DOMAIN stored, D \in SUBSET Tabs : Broadcast(id, D)
  /\ UNCHANGED handlerVars

\* a context-menu click on the selection "hello"
Click ==
  /\ Len(stored) < MaxActions
  /\ \E panelOpened \in BOOLEAN : HandleTextAction("summarize", Hello, panelOpened)
  /\ UNCHANGED handlerVars

Init == Start({"tab"}) /\ AuxIdle

Next ==
  \/ Tick
  \/ Click
  \/ BroadcastRound
  \/ AgentNext("tab")

Spec == Init /\ [][Next]_vars

\* the scheduling of the agent's event loop: an interval that is armed fires, an
\* awaited storage call settles, a timer that was set fires, injectPrompt returns
\* (findTextarea gives up after MAX_TEXTAREA_ATTEMPTS attempts), and the document
\* finishes loading.  The last is needed because the model follows one check per
\* timer at a time: a check that waits for the load event holds its timer's slot.
AgentFairness(c) ==
  /\ WF_vars(Initialize(c))
  /\ WF_vars(WindowLoad(c))
  /\ WF_vars(FastTick(c))
  /\ WF_vars(SteadyTick(c))
  /\ WF_vars(LoadCheck(c))
  /\ WF_vars(\E s \in PollSlots : RemoveDone(c, s))
  /\ WF_vars(\E s \in PollSlots : TimerDone(c, s))
  /\ WF_vars(\E s \in Slots, ok \in BOOLEAN : InjectEnd(c, s, ok))

\* Spec under fair scheduling of the frame agent
SpecFair == Spec /\ AgentFairness("tab")

(***************************************************************************)
(* SpecSystem: the frame agent of the side panel and a frame agent in a    *)
(* tab share the storage record; the broadcasts reach the tab.             *)
(***************************************************************************)
InitSystem == Start({"frame"}) /\ AuxIdle

NextSystem ==
  \/ Click
  \/ BroadcastRound
  \/ \E c \in Contexts : AgentNext(c)

SpecSystem == InitSystem /\ [][NextSystem]_vars

(***************************************************************************)
(* SpecIds: LongRun actions, one after the other, are consumed by the      *)
(* frame agent of the side panel through its storage poll and handled by   *)
(* the relay, while the cleanup intervals tick.                            *)
(***************************************************************************)
InitIds == Start({}) /\ AuxIdle

\* the last action has been consumed
Quiet ==
  /\ storage = NoRecord
  /\ \A s \in Slots : calls["frame"][s] = Idle
  /\ stored # <<>> => /\ Has(processedActionIds["frame"], Len(stored))
                      /\ Has(relayProcessed, Len(stored))

NextIds ==
  \/ /\ Quiet /\ Len(stored) < LongRun /\ HandleTextAction("summarize", Hello, TRUE)
     /\ UNCHANGED handlerVars
  \/ DelayedCheck("frame")
  \/ RemoveDone("frame", "poll")
  \/ TimerDone("frame", "poll")
  \/ InjectEnd("frame", "poll", TRUE)
  \/ stored # <<>> /\ RelayHandle(Len(stored), TRUE)
  \/ Cleanup("frame")
  \/ CleanupRelay
  \/ RelayCheckPendingActions

SpecIds == InitIds /\ [][NextIds]_vars

(***************************************************************************)
(* SpecText: one context-menu click, over every menu action and every      *)
(* selection text made of at most MaxFrags fragments.                      *)
(***************************************************************************)
ScriptBlock ==
  Str(<<"<", "s", "c", "r", "i", "p", "t", ">", "a", "l", "e", "r", "t", "(", "1", ")",
        "<", "/", "s", "c", "r", "i", "p", "t", ">">>)

\* a long run of plain characters
Filler == << <<"x", BlockLen>> >>

Fragments ==
  {ScriptBlock, Hello, Filler,
   Str(<<"<">>), Str(<<">">>),
   Str(<<"J", "a", "v", "a", "S", "c", "r", "i", "p", "t", ":">>),
   Str(<<"j", "a", "v", "a">>), Str(<<"s", "c", "r", "i", "p", "t", ":">>),
   Str(<<"o", "n", "x", "=">>), Str(<<"n", "x", "=">>),
   Str(<<" ">>)}

\* the texts made of at most n fragments
RECURSIVE Texts(_)
Texts(n) ==
  IF n = 0 THEN {<<>>}
  ELSE Texts(n - 1) \cup {t \o f : t \in Texts(n - 1), f \in Fragments}

\* the action types the context-menu listener passes to handleTextAction
MenuActions == {"summarize", "explain", "rewrite", "quizMe", "proofread"}

InitText == Start({}) /\ AuxIdle

NextText ==
  /\ lastClick = NoClick
  /\ \E action \in MenuActions, selectedText \in Texts(MaxFrags), panelOpened \in BOOLEAN :
       HandleTextAction(action, selectedText, panelOpened)
  /\ UNCHANGED handlerVars

SpecText == InitText /\ [][NextText]_vars

(***************************************************************************)
(* SpecHandler: MaxClicks clicks, one listener invocation at a time, with  *)
(* every outcome of the browser's calls.                                   *)
(***************************************************************************)
MenuItems == {"openCompanion", "summarize"}

Selections == {<<>>, Hello}

InitHandler == Start({}) /\ AuxIdle

NextHandler ==
  \/ \E tabId \in TabIds, windowId \in WindowIds : ActionClicked(tabId, windowId)
  \/ \E menuItemId \in MenuItems, selectionText \in Selections,
        tabId \in TabIds, windowId \in WindowIds :
          ContextMenuClicked(menuItemId, selectionText, tabId, windowId)
  \/ \E ok \in BOOLEAN : OpenSettled(ok)
  \/ RetryTimer
  \/ \E threw \in BOOLEAN, id \in ActiveIds : QuerySettled(threw, id)
  \/ ListenerReturn
  \/ HandleTextActionResume
  \/ InitialBroadcast
  \/ DelayedBroadcast

SpecHandler == InitHandler /\ [][NextHandler]_vars

\* SpecHandler when the timers of handleTextAction and of the retries fire and the
\* awaited calls of chrome.sidePanel.open and chrome.tabs.query settle
SpecHandlerFair ==
  /\ SpecHandler
  /\ WF_vars(InitialBroadcast) /\ WF_vars(DelayedBroadcast)
  /\ WF_vars(\E ok \in BOOLEAN : OpenSettled(ok))
  /\ WF_vars(RetryTimer)
  /\ WF_vars(\E threw \in BOOLEAN, id \in ActiveIds : QuerySettled(threw, id))

(***************************************************************************)
(* SpecRelay: INJECT_PROMPT messages of MaxMessages actions reach the      *)
(* side-panel relay any number of times, in any order, with the frame      *)
(* there or not.                                                           *)
(***************************************************************************)
InitRelay == Start({}) /\ AuxIdle

NextRelay ==
  \/ /\ Len(stored) < MaxMessages /\ HandleTextAction("summarize", Hello, TRUE)
     /\ UNCHANGED handlerVars
  \/ \E id \in DOMAIN stored, frameReady \in BOOLEAN : RelayHandle(id, frameReady)
  \/ CleanupRelay

SpecRelay == InitRelay /\ [][NextRelay]_vars

(***************************************************************************)
(* SpecDom: findTextarea on every document of at most MaxElements          *)
(* candidate elements.                                                     *)
(***************************************************************************)
\* textareas and content-editable divs with every combination of the properties
\* isElementUsable reads; a div has no disabled or readOnly property
Elements ==
  {e \in [tag : {"textarea", "div"}, placeholder : BOOLEAN, contentEditable : BOOLEAN,
          disabled : BOOLEAN, readOnly : BOOLEAN, sized : BOOLEAN,
          display : {"block", "none"}, visibility : {"visible", "hidden"}] :
     e.tag = "div" => e.contentEditable /\ ~e.placeholder /\ ~e.disabled /\ ~e.readOnly}

Documents == UNION {[1..n -> Elements] : n \in 1..MaxElements}

InitDom ==
  /\ Start({}) /\ UserIdle /\ UiIdle
  /\ document \in Documents
  /\ textarea = NotSearched
  /\ injection = NoInjection

NextDom == FindTextarea

SpecDom == InitDom /\ [][NextDom]_vars

(***************************************************************************)
(* SpecInject: MaxInjections calls of injectPrompt, one after the other,   *)
(* on documents of at most MaxElements of the elements below, which the    *)
(* page replaces while the call waits.                                     *)
(***************************************************************************)
\* a usable and a hidden textarea, a usable content-editable div, a send button, a
\* disabled send button, a button with an icon and a stop button
InjectElements ==
  LET element(tag, editable, disabled, display, label) ==
        [tag |-> tag, placeholder |-> FALSE, contentEditable |-> editable,
         disabled |-> disabled, readOnly |-> FALSE, sized |-> TRUE, display |-> display,
         visibility |-> "visible", label |-> label]
  IN  {element("textarea", FALSE, FALSE, "block", "none"),
       element("textarea", FALSE, FALSE, "none", "none"),
       element("div", TRUE, FALSE, "block", "none"),
       element("button", FALSE, FALSE, "block", "send"),
       element("button", FALSE, TRUE, "block", "send"),
       element("button", FALSE, FALSE, "block", "icon"),
       element("button", FALSE, FALSE, "block", "stop")}

InjectDocuments == UNION {[1..n -> InjectElements] : n \in 1..MaxElements}

InitInject ==
  /\ Start({}) /\ UserIdle /\ UiIdle
  /\ document \in InjectDocuments
  /\ textarea = NotSearched
  /\ injection = NoInjection

NextInject ==
  \/ \E id \in 1..MaxActions : InjectPromptCalled(id)
  \/ InjectSearch
  \/ \E doc \in InjectDocuments : DocumentChanged(doc)
  \/ \E threw, sendFails \in BOOLEAN : TextareaReturned(threw, sendFails)
  \/ \E threw, sendFails \in BOOLEAN : SendTimerFired(threw, sendFails)

SpecInject == InitInject /\ [][NextInject]_vars

\* SpecInject when the TEXTAREA_SEARCH_DELAY timer of findTextarea fires
SpecInjectFair == SpecInject /\ WF_vars(InjectSearch)

(***************************************************************************)
(* SpecUser: the calls of userDetails on every stored record and every     *)
(* details object of the sets below.                                       *)
(***************************************************************************)
LongName == JsString(<< <<"x", MAX_NAME_LENGTH + 1>> >>)

Names ==
  {JsNumber, JsString(<<>>), JsString(Str(<<"<", "b", ">", "b", "o", "b", " ">>)),
   JsString(<< <<"x", MAX_NAME_LENGTH>> >>), LongName}

LongEmail == JsString(<< <<"x", MAX_EMAIL_LENGTH - 1>>, <<"@", 1>>, <<"b", 1>> >>)

Emails ==
  {JsNumber, JsString(<<>>), JsString(Str(<<"a", "@", "b", ".", "c">>)),
   JsString(Str(<<"a", "b">>)), JsString(Str(<<"a", "@", "b", ".">>)),
   JsString(<< <<"a", 1>>, <<"@", 1>>, <<"x", MAX_LABEL_LENGTH + 1>> >>),
   JsString(<< <<"x", MAX_EMAIL_LENGTH - 2>>, <<"@", 1>>, <<"b", 1>> >>), LongEmail}

Dates == {JsNull, IsoNow, JsString(Str(<<"s", "o", "o", "n">>)), JsNumber}

\* a well-formed details object, the objects that differ from it in one property, an
\* object with no property of the right type, a missing one and a non-object
DetailsObjects ==
  LET name == JsString(Str(<<"b", "o", "b">>))
      email == JsString(Str(<<"b", "@", "b", ".", "c">>))
  IN  {Details("object", n, email, JsNull) : n \in Names}
        \cup {Details("object", name, e, JsNull) : e \in Emails}
        \cup {Details("object", name, email, d) : d \in Dates}
        \cup {Details("object", JsNumber, JsNumber, JsNumber), DEFAULT_USER_DETAILS,
               NoDetails, Details("other", JsNull, JsNull, JsNull)}

\* what the storage area holds when the extension starts
InitUser ==
  /\ Start({}) /\ DomIdle /\ UiIdle
  /\ userStore \in DetailsObjects
  /\ lastVisit = JsNull
  /\ userCall = NoUserCall

NextUser ==
  \/ \E readFails \in BOOLEAN : UserGet(readFails)
  \/ \E details \in DetailsObjects, writeFails \in BOOLEAN : UserSave(details, writeFails)
  \/ \E writeFails \in BOOLEAN : UpdateLastVisit(writeFails)

SpecUser == InitUser /\ [][NextUser]_vars

(***************************************************************************)
(* SpecRefresh: the side panel page under clicks and key presses on the    *)
(* refresh button, frame events and its timers.                            *)
(***************************************************************************)
Keys == {"click", "Enter", " ", "Tab"}

InitRefresh == Start({}) /\ AuxIdle

NextRefresh ==
  \/ \E key \in Keys : RefreshRequested(key)
  \/ DebounceTimerFired
  \/ IframeSettled
  \/ LoadTimeoutFired
  \/ TransitionTimerFired

SpecRefresh == InitRefresh /\ [][NextRefresh]_vars

\* SpecRefresh when the timers of the page fire; the frame may fire no event at all
SpecRefreshFair ==
  /\ SpecRefresh
  /\ WF_vars(DebounceTimerFired)
  /\ WF_vars(LoadTimeoutFired)
  /\ WF_vars(TransitionTimerFired)

(***************************************************************************)
(* SpecRace: MaxWrites actions are stored while the checks of one frame    *)
(* agent in a tab read and delete the record; the clock runs and the       *)
(* broadcasts of the actions reach the agent.                              *)
(***************************************************************************)
\* a context-menu click that stores an action
Write ==
  /\ Len(stored) < MaxWrites
  /\ HandleTextAction("summarize", Hello, TRUE)
  /\ UNCHANGED handlerVars

InitRace == Start({}) /\ AuxIdle

NextRace ==
  \/ Tick
  \/ Write
  \/ BroadcastRound
  \/ DelayedCheck("tab")
  \/ RemoveDone("tab", "poll")
  \/ TimerDone("tab", "poll")
  \/ \E id \in DOMAIN stored : HandleMessage("tab", id)
  \/ \E s \in {"poll", "msg"} : InjectEnd("tab", s, TRUE)

SpecRace == InitRace /\ [][NextRace]_vars

(***************************************************************************)
(* SpecFault: the checks of one frame agent when reads and deletes of      *)
(* chrome.storage.local can fail.                                          *)
(***************************************************************************)
InitFault == Start({}) /\ AuxIdle

NextFault ==
  \/ Tick
  \/ Click
  \/ FastTick("tab")
  \/ SteadyTick("tab")
  \/ DelayedCheck("tab")
  \/ \E s \in {"fast", "poll"} : ReadFailed("tab", s)
  \/ \E s \in {"fast", "poll"} : RemoveDone("tab", s)
  \/ \E s \in {"fast", "poll"} : RemoveFailed("tab", s)
  \/ \E s \in {"fast", "poll"} : TimerDone("tab", s)
  \/ \E s \in {"fast", "poll"}, ok \in BOOLEAN : InjectEnd("tab", s, ok)

SpecFault == InitFault /\ [][NextFault]_vars

(***************************************************************************)
(* SpecBroadcast: MaxRounds calls of broadcastMessage, over every list of  *)
(* at most MaxTabs tabs and every outcome of the sends.                    *)
(***************************************************************************)
TabLists == UNION {[1..n -> TabIds] : n \in 0..MaxTabs}

InitBroadcast == Start({}) /\ AuxIdle

NextBroadcast ==
  \/ \E tabs \in TabLists, threw \in BOOLEAN : TabsQueried(tabs, threw)
  \/ \E i \in 1..MaxTabs, ok \in BOOLEAN : SendSettled(i, ok)
  \/ AllSettled

SpecBroadcast == InitBroadcast /\ [][NextBroadcast]_vars

(***************************************************************************)
(* Properties.                                                             *)
(***************************************************************************)
TerminalStates == {"expired", "duplicate", "injected", "injection-failed"}

\* the outcome reports of agent c about action id
ReportsOf(c, id) == {i \in DOMAIN reports[c] : reports[c][i].actionId = id}

\* the invocation in slot s of agent c has just read a well-formed record
ReadIn(c, s) ==
  /\ calls[c][s].pc \in {"idle", "reading"}
  /\ calls'[c][s].pc \in {"rmExpired", "rmDup", "rmFresh"}

NoTagDelimiter(t) == \A i \in DOMAIN t : t[i][1] \notin {"<", ">"}

NoJavascript(t) == \A i \in DOMAIN t : ~MatchLit(t, i, LitJavascript)

NoHandler(t) == \A i \in DOMAIN t : MatchEnd("on", t, i) = 0

SummarizeHello ==
  Str(<<"S", "u", "m", "m", "a", "r", "i", "z", "e", " ", "t", "h", "e", " ", "f", "o",
        "l", "l", "o", "w", "i", "n", "g", " ", "t", "e", "x", "t", ":", "\n", "\n",
        "h", "e", "l", "l", "o">>)

\* C8, as stated: for every selection text the output of sanitizeSelection holds no "<"
\* and no ">", no "javascript:" in any letter case, no on<word>= handler pattern, and at
\* most MAX_SELECTION_LENGTH characters.
C8_SanitizedIsClean ==
  lastClick # NoClick =>
    LET out == sanitizeSelection(lastClick.selection)
    IN  /\ NoTagDelimiter(out)
        /\ NoJavascript(out)
        /\ NoHandler(out)
        /\ Length(out) <= MAX_SELECTION_LENGTH

\* C9, amended: createPrompt returns the empty string exactly when the sanitized
\* selection is empty, and then no PendingAction is stored and there is none to
\* broadcast; for an action type without a template and a non-empty sanitized selection
\* it returns the sanitized text alone, which is stored as the prompt.
C9_EmptyPromptIffNothingSanitized ==
  lastClick # NoClick =>
    LET sanitized == sanitizeSelection(lastClick.selection)
    IN  /\ (lastClick.prompt = <<>>) <=> (sanitized = <<>>)
        /\ lastClick.prompt = <<>> => storage = NoRecord /\ stored = <<>> /\ rounds = <<>>
        /\ lastClick.action \notin DOMAIN PROMPT_TEMPLATES /\ sanitized # <<>> =>
             /\ lastClick.prompt = sanitized
             /\ storage.prompt = sanitized
             /\ Len(stored) = 1

\* C9, witness: the menu action quizMe on the selection "hello" has stored the prompt
\* "hello".
C9_UnknownActionStored ==
  /\ lastClick.action = "quizMe"
  /\ lastClick.selection = Hello
  /\ storage.prompt = Hello
  /\ Len(stored) = 1

\* C9, as stated: createPrompt returns the empty string whenever the sanitized selection
\* is empty or the action type has no template, and then nothing is stored.
C9_EmptyPromptForUnknownAction ==
  /\ lastClick # NoClick
  /\ \/ sanitizeSelection(lastClick.selection) = <<>>
     \/ lastClick.action \notin DOMAIN PROMPT_TEMPLATES
  => lastClick.prompt = <<>> /\ storage = NoRecord /\ stored = <<>>

\* C10: for an action type with a template and a selection whose sanitized form is not
\* empty, the prompt of the stored record is the template followed by the sanitized
\* text; the selection <script>alert(1)</script>hello with summarize stores
\* "Summarize the following text:\n\nhello".
C10_StoredPromptIsTemplateThenSanitized ==
  /\ lastClick.action \in DOMAIN PROMPT_TEMPLATES
       /\ sanitizeSelection(lastClick.selection) # <<>>
     => /\ Len(stored) = 1
        /\ storage = stored[1]
        /\ storage.prompt =
             PROMPT_TEMPLATES[lastClick.action] \o sanitizeSelection(lastClick.selection)
  /\ lastClick.action = "summarize" /\ lastClick.selection = ScriptBlock \o Hello
     => storage.prompt = SummarizeHello

\* C10, witness: the script example has been clicked and stored.
C10_ScriptExampleStored ==
  /\ lastClick.action = "summarize"
  /\ lastClick.selection = ScriptBlock \o Hello
  /\ storage.prompt = SummarizeHello

\* C1: in one frame agent, however the fast poller, the steady poller, the one-shot
\* checks, the load check and the INJECT_PROMPT messages interleave on the same
\* PendingAction, no actionId passes injectPrompt's guard twice, and once any of them
\* has gone through injectPrompt for it, exactly one injection attempt has been made.
C1_ExactlyOneAttempt ==
  \A c \in Contexts, id \in DOMAIN stored :
    /\ Count(attemptLog[c], id) <= 1
    /\ (\E k \in {"duplicate", "injected", "injection-failed"} : <<id, k>> \in terminal[c])
         => Count(attemptLog[c], id) = 1
    /\ (\E s \in Slots : calls[c][s] = [pc |-> "injecting", id |-> id])
         => Count(attemptLog[c], id) = 1

\* C1, witness: two polls have read action 1, a broadcast of it has been handled too,
\* one of the three injected it and another was turned away as a duplicate.
C1_ManyObserversOneAttempt ==
  /\ Count(seen["tab"], 1) >= 2
  /\ rounds # <<>> /\ rounds[1] > 0 /\ inbox["tab"] = {}
  /\ <<1, "injected">> \in terminal["tab"]
  /\ <<1, "duplicate">> \in terminal["tab"]
  /\ \A s \in Slots : calls["tab"][s] = Idle
  /\ attemptLog["tab"] = <<1>>

\* C2, as stated: for every actionId, over all frame agents together, at most one
\* injection attempt is ever made.
C2_AtMostOnceSystemWide ==
  \A id \in DOMAIN stored :
    Count(attemptLog["frame"], id) + Count(attemptLog["tab"], id) <= 1

\* C3, as stated: no injection attempt for an action starts at a moment when the
\* action's age, now - timestamp, exceeds the expiry threshold.
C3_NoAttemptOnExpiredAction ==
  [][\A c \in Contexts :
       Len(attemptLog'[c]) > Len(attemptLog[c])
         => now - stored[Last(attemptLog'[c])].timestamp <= ACTION_EXPIRY_MS]_vars

\* C4, as stated: once an actionId has reached a terminal state in a context (expired,
\* duplicate, injected or injection-failed), no injection attempt for it starts in that
\* context any more.
C4_TerminalNeverRevisited ==
  [][\A c \in Contexts :
       Len(attemptLog'[c]) > Len(attemptLog[c])
         => \A k \in TerminalStates : <<Last(attemptLog'[c]), k>> \notin terminal[c]]_vars

\* a step from the processed-id set old to new adds one identifier at the end, or is a
\* trim of a set of more than CLEANUP_THRESHOLD identifiers to its CLEANUP_KEEP newest
AddOrTrim(old, new) ==
  \/ new = old
  \/ Len(new) = Len(old) + 1 /\ SubSeq(new, 1, Len(old)) = old
  \/ /\ Len(old) > CLEANUP_THRESHOLD
     /\ Len(new) = CLEANUP_KEEP
     /\ \A i \in 1..CLEANUP_KEEP : new[i] = old[Len(old) - CLEANUP_KEEP + i]

\* C5, amended: the processed-id set of the frame agent and of the relay only grows by
\* one identifier at a time, except that a cleanup tick that finds more than 100
\* identifiers keeps exactly the 50 added last, in order, and evicts the older ones;
\* after a cleanup tick the set holds at most 100 identifiers.  Between two ticks it
\* may hold more than 100.
C5_TrimKeepsNewest ==
  [][/\ AddOrTrim(processedActionIds["frame"], processedActionIds'["frame"])
     /\ AddOrTrim(relayProcessed, relayProcessed')
     /\ Cleanup("frame") => Len(processedActionIds'["frame"]) <= CLEANUP_THRESHOLD
     /\ CleanupRelay => Len(relayProcessed') <= CLEANUP_THRESHOLD]_vars

\* C5, witness: more than 100 actions were consumed and both sets have been trimmed to
\* the 50 newest identifiers.
C5_TrimmedToNewest ==
  /\ Len(stored) > CLEANUP_THRESHOLD
  /\ Len(processedActionIds["frame"]) = CLEANUP_KEEP
  /\ processedActionIds["frame"][CLEANUP_KEEP] = Len(stored)
  /\ processedActionIds["frame"][1] = Len(stored) - CLEANUP_KEEP + 1
  /\ Len(relayProcessed) = CLEANUP_KEEP
  /\ relayProcessed[1] = Len(stored) - CLEANUP_KEEP + 1

\* C5, as stated: in no reachable state does a processed-id set hold more than 100
\* identifiers.
C5_NeverAboveCap ==
  /\ \A c \in Contexts : Len(processedActionIds[c]) <= CLEANUP_THRESHOLD
  /\ Len(relayProcessed) <= CLEANUP_THRESHOLD

\* C6, amended: when several polls of one frame agent read the same PendingAction, at
\* most one outcome message is sent for it; a later poll may still read the record,
\* before the delete of the earlier one has completed, and is then turned away as a
\* duplicate (or finds it expired).
C6_OneOutcomePerAction ==
  \A c \in Contexts, id \in DOMAIN stored :
    /\ Cardinality(ReportsOf(c, id)) <= 1
    /\ Count(seen[c], id) >= 2 /\ (\A s \in Slots : calls[c][s].id # id)
         => \E k \in {"duplicate", "expired"} : <<id, k>> \in terminal[c]

\* C6, witness: two polls read action 1, and one outcome message was sent.
C6_TwoReadsOneOutcome ==
  /\ Count(seen["tab"], 1) >= 2
  /\ Len(reports["tab"]) = 1
  /\ \A s \in Slots : calls["tab"][s] = Idle

\* C6, as stated: the second of two polls finds the storage key already absent, so no
\* record is read twice by one frame agent.
C6_SecondPollFindsNothing ==
  \A c \in Contexts, id \in DOMAIN stored : Count(seen[c], id) <= 1

\* C7, amended: checkPendingActions treats a record as expired exactly when its age is
\* strictly greater than ACTION_EXPIRY_MS = 60000 (a record of age 60000 is not
\* expired, one written at 0 and polled at 35000 is processed); on an expired record it
\* deletes the record, starts no injection, leaves the processed-id set unchanged and
\* returns false, so that the fast poller goes on unless its 10 s are over.
C7_ExpiredRecordIsDiscarded ==
  [][\A c \in Contexts, s \in PollSlots :
       /\ ReadIn(c, s) =>
            /\ (calls'[c][s].pc = "rmExpired") <=> (now - storage.timestamp > ACTION_EXPIRY_MS)
            /\ attemptLog'[c] = attemptLog[c]
            /\ processedActionIds'[c] = processedActionIds[c]
       /\ calls[c][s].pc = "rmExpired" /\ calls'[c][s].pc # "rmExpired" =>
            /\ storage' = NoRecord
            /\ calls'[c][s] = Idle
            /\ attemptLog'[c] = attemptLog[c]
            /\ processedActionIds'[c] = processedActionIds[c]
            /\ \/ isInitialPolling'[c] = isInitialPolling[c]
               \/ s = "fast" /\ now - initStartTime[c] > INITIAL_POLL_DURATION]_vars

\* C7, witness: a poll found action 1 expired and deleted it; nothing was injected.
C7_ExpiredAndDeleted ==
  /\ <<1, "expired">> \in terminal["tab"]
  /\ storage = NoRecord
  /\ attemptLog["tab"] = <<>>
  /\ processedActionIds["tab"] = <<>>
  /\ \A s \in Slots : calls["tab"][s] = Idle

\* C7, as stated: a record older than the expiry threshold of the configuration,
\* 30000 ms, is discarded when polled: one written at 0 and polled at 35000 is deleted
\* without injection.
C7_ExpiredAfter30000 ==
  [][\A c \in Contexts, s \in PollSlots :
       ReadIn(c, s) /\ now - storage.timestamp > CONFIG_ACTION_EXPIRY
         => calls'[c][s].pc = "rmExpired"]_vars

(***************************************************************************)
(* Opening the side panel and the order of handleTextAction (SpecHandler). *)
(***************************************************************************)
Strategies == {"byTab", "byWindow", "byActive"}

\* the place of a strategy in openSidePanel
Rank(method) ==
  CASE method = "byTab" -> 1
    [] method = "byWindow" -> 2
    [] OTHER -> 3

\* the failed attempts of a strategy in the invocation's log
FailedAttempts(method) ==
  {i \in DOMAIN openLog : openLog[i].method = method /\ ~openLog[i].ok}

\* the strategy had an id to work with in this invocation
Applicable(method) ==
  CASE method = "byTab" -> panel.tabId # 0
    [] method = "byWindow" -> panel.windowId # 0
    [] OTHER -> panel.activeId # 0

\* C11: within one invocation of openSidePanel the attempts come in the order tabId,
\* windowId, active tab; a successful attempt is the last one and makes the result true
\* at once; the result is false only when every strategy that had an id has failed
\* MAX_RETRY_ATTEMPTS + 1 times.
C11_StrategiesInOrderUntilSuccess ==
  /\ \A i, j \in DOMAIN openLog :
        i < j => /\ Rank(openLog[i].method) <= Rank(openLog[j].method)
                 /\ ~openLog[i].ok
                 /\ openLog[i].method = openLog[j].method
                      => openLog[i].retryCount < openLog[j].retryCount
  /\ (openLog # <<>> /\ Last(openLog).ok) <=> panel.result = "true"
  /\ panel.result = "false" =>
        \A method \in Strategies :
          Applicable(method) =>
            Cardinality(FailedAttempts(method)) = MAX_RETRY_ATTEMPTS + 1

\* all three strategies ran out of retries
C11_EveryStrategyExhausted ==
  /\ panel.result = "false"
  /\ \A method \in Strategies : Applicable(method)
  /\ Len(openLog) = 3 * (MAX_RETRY_ATTEMPTS + 1)

\* C12: a PendingAction is written only by a handleTextAction whose openSidePanel
\* returned true, and a broadcast of an action is sent only when its record has been
\* written before, the first one by the handler that wrote it.
C12_OpenThenStoreThenBroadcast ==
  [][/\ Len(stored') > Len(stored) => hta.pc = "open" /\ panel.result = "true"
     /\ \A id \in DOMAIN rounds' :
          IF id \in DOMAIN rounds
          THEN rounds'[id] > rounds[id] =>
                 /\ id \in DOMAIN stored
                 /\ rounds[id] = 0 => hta.pc = "wait1000" /\ hta.id = id
          ELSE rounds'[id] = 0]_vars

\* a handler has stored its action and all five broadcasts have been sent
C12_StoredAndBroadcast ==
  /\ hta.clicks > 0
  /\ \E id \in DOMAIN rounds : rounds[id] = BROADCAST_ROUNDS /\ storage.id = id

(***************************************************************************)
(* The side-panel relay (SpecRelay).                                       *)
(***************************************************************************)
\* the step is a run of the relay's handleMessage
RelayHandled ==
  \/ relayReply' # relayReply
  \/ relayPosts' # relayPosts
  \/ Len(relayProcessed') > Len(relayProcessed)

Unusable(element) ==
  \/ ~element.sized
  \/ element.display = "none"
  \/ element.visibility = "hidden"
  \/ element.disabled
  \/ element.readOnly

\* C14: the element findTextarea returns is not zero-sized, not hidden, not disabled
\* and not read-only; and when the document holds an element that matches a selector
\* and is none of these, findTextarea returns such an element and not null.
C14_FoundElementIsUsable ==
  /\ textarea.result > 0 => ~Unusable(document[textarea.result])
  /\ (\E i \in DOMAIN document :
         /\ ~Unusable(document[i])
         /\ \E k \in DOMAIN TEXTAREA_SELECTORS :
              matches(TEXTAREA_SELECTORS[k], document[i]))
       => textarea.result # 0

WellFormed(details) ==
  /\ details.kind = "object"
  /\ details.name.type = "string" /\ Length(details.name.text) <= 255
  /\ details.email.type = "string" /\ Length(details.email.text) <= 320
  /\ \/ details.lastActive.type = "null"
     \/ details.lastActive.type = "string" /\ details.lastActive.parses

\* save has to refuse the details
Refused(details) ==
  \/ ~WellFormed(details)
  \/ details.email.text # <<>> /\ ~EmailMatch(details.email.text)

\* C16: userDetails.get does not throw; it returns the default record when the read
\* failed, when nothing is stored or when the stored record is not well formed, and
\* the stored record otherwise.
C16_GetReturnsStoredOrDefault ==
  userCall.op = "get" =>
    /\ ~userCall.threw
    /\ userCall.value =
         IF userCall.failed \/ userStore.kind = "undefined" \/ ~WellFormed(userStore)
         THEN Details("object", JsString(<<>>), JsString(<<>>), JsNull)
         ELSE userStore

\* get found a stored object that fails validation and returned the default record
C16_DefaultForInvalidRecord ==
  /\ userCall.op = "get" /\ ~userCall.failed
  /\ userStore.kind = "object" /\ ~WellFormed(userStore)
  /\ userCall.value = DEFAULT_USER_DETAILS

\* C17: a userDetails.save whose details are not well formed, or whose non-empty email
\* does not match the email pattern, throws and leaves the stored record as it was; a
\* save whose storage write fails throws.
C17_SaveThrowsOnInvalidDetails ==
  [][(userCall'.op = "save" /\ <<userCall, userStore>>' # <<userCall, userStore>>) =>
       /\ Refused(userCall'.arg) => userCall'.threw /\ userStore' = userStore
       /\ userCall'.failed => userCall'.threw]_vars

\* a save was refused for its email alone, over a record stored before
C17_RefusedForEmailPattern ==
  /\ userCall.op = "save" /\ userCall.threw /\ ~userCall.failed
  /\ WellFormed(userCall.arg)
  /\ ~EmailMatch(userCall.arg.email.text)
  /\ WellFormed(userStore) /\ userStore.lastActive = IsoNow

(***************************************************************************)
(* What reaches chrome.storage.local (SpecText, SpecUser).                 *)
(***************************************************************************)
\* C18: every value written to the storage area is one that sanitizeData leaves: the
\* prompt of the PendingAction record, the user details written by save and the
\* last-visit timestamp are unchanged by sanitizeData.
C18_StoredDataIsSanitized ==
  /\ storage # NoRecord => sanitizeString(storage.prompt) = storage.prompt
  /\ (userCall.op = "save" /\ ~userCall.threw) => sanitizeData(userStore) = userStore
  /\ sanitizeValue(lastVisit) = lastVisit

(***************************************************************************)
(* The refresh control (SpecRefresh).                                      *)
(***************************************************************************)
\* the step is a call of refreshArenaFrame
RefreshCall == sidepanel'.requests = sidepanel.requests + 1

\* C19: a refresh request made while the cooldown timer of an accepted refresh is
\* pending changes neither the frame's src nor the overlay nor the timer; a request
\* made when no timer is pending assigns src, shows the overlay and arms the timer;
\* the timer is armed only by an accepted request and cleared only by its firing.
C19_RefreshCooldown ==
  [][/\ RefreshCall =>
          IF sidepanel.refreshDebounceTimer
          THEN /\ sidepanel'.srcAssignments = sidepanel.srcAssignments
               /\ sidepanel'.display = sidepanel.display
               /\ sidepanel'.hidden = sidepanel.hidden
               /\ sidepanel'.refreshDebounceTimer
          ELSE /\ sidepanel'.srcAssignments = sidepanel.srcAssignments + 1
               /\ sidepanel'.display = "flex" /\ ~sidepanel'.hidden
               /\ sidepanel'.refreshDebounceTimer
     /\ ~RefreshCall =>
          /\ sidepanel'.srcAssignments = sidepanel.srcAssignments
          /\ sidepanel'.refreshDebounceTimer => sidepanel.refreshDebounceTimer]_vars

\* of four requests, the last by the Space key, two were ignored during a cooldown
\* and two accepted, and the overlay of the first load is gone
C19_IgnoredThenAccepted ==
  /\ sidepanel.requests = 4
  /\ sidepanel.srcAssignments = 2
  /\ sidepanel.key = " "
  /\ ~sidepanel.refreshDebounceTimer
  /\ sidepanel.display = "none"

(***************************************************************************)
(* The order of checkPendingActions on a fresh record (Spec).              *)
(***************************************************************************)
Waits == {"waitLoad", "wait500"}

Removing == {"rmExpired", "rmDup", "rmFresh"}

\* C21, as stated: when the storage delete of a check completes while storage holds a
\* record other than the one the check has read, that record is still in storage
\* after the delete.
C21_DeleteOnlyRecordRead ==
  [][\A s \in PollSlots :
       LET old == calls["tab"][s]
       IN  /\ old.pc \in Removing
           /\ calls'["tab"][s].pc \notin Removing
           /\ storage # NoRecord /\ storage.id # old.id
           => storage' = storage]_vars

FastReturnsFound ==
  /\ calls["tab"]["fast"].pc \in {"wait500", "injecting"}
  /\ calls'["tab"]["fast"].pc = "idle"

\* the check in the fast slot returns
FastReturns ==
  /\ calls["tab"]["fast"].pc # "idle"
  /\ calls'["tab"]["fast"].pc = "idle"

WindowElapsed == now - initStartTime["tab"] > INITIAL_POLL_DURATION

\* the fast phase ends when a fast check returns true or returns after the window, and
\* for no other reason; the steady poller checks only after it
FastPhaseEnds ==
  /\ SteadyTick("tab") => ~isInitialPolling["tab"]
  /\ FastReturns /\ (FastReturnsFound \/ WindowElapsed) =>
       ~fastPollIntervalId'["tab"] /\ ~isInitialPolling'["tab"]
  /\ fastPollIntervalId["tab"] /\ ~fastPollIntervalId'["tab"] =>
       /\ FastReturnsFound \/ WindowElapsed
       /\ ~isInitialPolling'["tab"]

\* C23, as stated: the steady poller checks only while isInitialPolling is false; the
\* fast timer is cancelled when one of its checks reports an action found or returns
\* after the 10 s window; once cancelled the fast timer is never armed again.
C23_FastPhaseEndsForGood ==
  [][/\ FastPhaseEnds
     /\ ~fastPollIntervalId["tab"] => ~fastPollIntervalId'["tab"]]_vars

\* C23: the steady poller checks only while isInitialPolling is false; the fast timer
\* is cancelled when one of its checks reports an action found or returns more than
\* 10 s after initStartTime; a cancelled fast timer is armed again only by initialize
\* on DOMContentLoaded, which restarts the window at that moment.
C23_FastPhaseEndsUntilInitialize ==
  [][/\ FastPhaseEnds
     /\ ~fastPollIntervalId["tab"] /\ fastPollIntervalId'["tab"] =>
          /\ readyState["tab"] = "loading" /\ readyState'["tab"] = "interactive"
          /\ initStartTime'["tab"] = now
          /\ isInitialPolling'["tab"]]_vars

\* within the window the fast timer has been cancelled: a fast check reported an
\* action found
C23_CancelledByActionFound ==
  /\ ~fastPollIntervalId["tab"] /\ ~isInitialPolling["tab"]
  /\ ~WindowElapsed
  /\ readyState["tab"] = "complete"
  /\ calls["tab"]["fast"].pc = "idle"

\* C24: in every state the fast poll timer is armed or isInitialPolling is false, so
\* one of the two pollers performs checks, also after initialize has run startPolling
\* again with a fast check still in flight.
C24_PollingNeverStalls ==
  \A c \in Contexts : fastPollIntervalId[c] \/ ~isInitialPolling[c]

\* initialize has run on DOMContentLoaded and restarted the fast phase while a fast
\* check that has read the record is in flight
C24_RestartedWithCheckInFlight ==
  /\ readyState["tab"] = "interactive"
  /\ initStartTime["tab"] > 0
  /\ calls["tab"]["fast"].pc \in {"rmFresh", "waitLoad"}
  /\ fastPollIntervalId["tab"] /\ isInitialPolling["tab"]

(***************************************************************************)
(* handleTextAction and the broadcasts (SpecHandler).                      *)
(***************************************************************************)
\* C25: when handleTextAction finds that openSidePanel returned false, it writes no
\* record and announces none, and calls openSidePanel once more with the same ids;
\* while that recovery call runs nothing is stored, and when it has returned, with
\* either result, the listener is idle again and takes the next click.
C25_AbortedWithOneRecovery ==
  [][/\ (hta.pc = "open" /\ panel.pc = "done" /\ panel.result = "false" /\ hta' # hta) =>
          /\ hta'.pc = "recovery"
          /\ panel' = openSidePanel(panel.tabId, panel.windowId)
          /\ UNCHANGED <<storage, stored, rounds, inbox, lastClick>>
     /\ hta.pc = "recovery" =>
          /\ UNCHANGED <<storage, stored>>
          /\ DOMAIN rounds' = DOMAIN rounds
          /\ hta' # hta => /\ panel.pc = "done"
                           /\ hta' = [hta EXCEPT !.pc = "idle"]
                           /\ panel' = panel]_vars

\* the first click asked for a summary of "hello"; the panel did not open, the
\* recovery call failed as well, and the listener is idle with nothing stored
C25_AbortedAndIdle ==
  /\ hta.pc = "idle" /\ hta.clicks = 1
  /\ hta.action = "summarize" /\ hta.selection = Hello
  /\ panel.pc = "done" /\ panel.result = "false"
  /\ storage = NoRecord /\ stored = <<>> /\ rounds = <<>>

\* C26: when the panel opened and the prompt built from the selection is empty,
\* handleTextAction returns at once: storage keeps what it held, no record is created,
\* no message is sent; and every broadcast counted belongs to a stored record.
C26_EmptyPromptChangesNothing ==
  [][/\ (/\ hta.pc = "open" /\ panel.pc = "done" /\ panel.result = "true"
         /\ createPrompt(hta.action, hta.selection) = <<>>
         /\ hta' # hta) =>
          /\ hta' = [hta EXCEPT !.pc = "idle"]
          /\ UNCHANGED <<storage, stored, rounds, inbox, panel>>
     /\ DOMAIN rounds' = DOMAIN stored'
     /\ \A id \in DOMAIN stored' : stored'[id].prompt # <<>>]_vars

\* the second click had an empty selection: its handler has returned, and the record
\* of the first click is still the one in storage
C26_EarlierRecordStaysInPlace ==
  /\ hta.pc = "idle" /\ hta.clicks = 2
  /\ hta.action = "summarize" /\ hta.selection = <<>>
  /\ panel.result = "true"
  /\ Len(stored) = 1 /\ storage = stored[1]

\* C27: every stored action gets its broadcast rounds one by one, never more than
\* five; each round delivers the actionId of that action and no other, whatever
\* record storage holds by then; and once the timers have fired the action has had
\* exactly five rounds.
C27_FiveRoundsPerStoredAction ==
  /\ [](/\ DOMAIN rounds = DOMAIN stored
        /\ \A id \in DOMAIN rounds : rounds[id] <= BROADCAST_ROUNDS)
  /\ [][\A id \in DOMAIN rounds :
          rounds'[id] # rounds[id] =>
            /\ rounds'[id] = rounds[id] + 1
            /\ stored'[id] = stored[id]
            /\ \A c \in Contexts :
                 inbox[c] \subseteq inbox'[c] /\ inbox'[c] \subseteq inbox[c] \cup {id}]_vars
  /\ \A id \in 1..MaxClicks :
       (id \in DOMAIN rounds) ~> (id \in DOMAIN rounds /\ rounds[id] = BROADCAST_ROUNDS)

\* two actions were stored and each has had its five rounds; the tab received both ids
C27_BothActionsFiveRounds ==
  /\ Len(stored) = 2 /\ storage = stored[2]
  /\ rounds = <<BROADCAST_ROUNDS, BROADCAST_ROUNDS>>
  /\ inbox["tab"] = {1, 2}

(***************************************************************************)
(* The sends of a broadcast round (SpecBroadcast).                         *)
(***************************************************************************)
\* C28: in a round a send is attempted to exactly the tabs whose id is there and is
\* not TAB_ID_NONE; a send that fails leaves the other sends as they are; the round
\* ends only when every send has settled, and broadcastMessage never rejects.
C28_FailedSendIsIgnored ==
  [][/\ broadcast'.attempted = {i \in DOMAIN broadcast'.tabs : hasValidId(broadcast'.tabs[i])}
     /\ ~broadcast'.rejected
     /\ broadcast'.pc = "done" => broadcast'.pending = {}
     /\ \A i \in broadcast.pending :
          i \in broadcast'.failed /\ broadcast.pc = "sending" =>
            /\ broadcast'.pc = "sending"
            /\ broadcast'.pending = broadcast.pending \ {i}
            /\ broadcast'.attempted = broadcast.attempted]_vars

\* a round over three tabs with valid ids has ended: the send to the first failed, the
\* other two were delivered
C28_OneFailedOthersDelivered ==
  /\ broadcast.pc = "done"
  /\ broadcast.tabs = <<7, 7, 7>>
  /\ broadcast.attempted = {1, 2, 3}
  /\ broadcast.failed = {1}
  /\ ~broadcast.rejected

(***************************************************************************)
(* The relay after a forward that failed (SpecRelay).                      *)
(***************************************************************************)
\* C29: a message whose actionId is new to the relay leaves it in the processed set,
\* whether the forward succeeded or not; and an actionId that is in the processed set
\* without having been posted stays so: every later message of it is answered
\* success = false, 'Already processed', also when the frame is there by then.
C29_FailedForwardIsFinal ==
  [][\A id \in DOMAIN stored :
       /\ (RelayHandled /\ relayReply'.actionId = id /\ ~Has(relayProcessed, id)) =>
            Has(relayProcessed', id)
       /\ (Has(relayProcessed, id) /\ ~Has(relayPosts, id)) =>
            /\ Has(relayProcessed', id) /\ ~Has(relayPosts', id)
            /\ (RelayHandled /\ relayReply'.actionId = id) =>
                 ~relayReply'.success /\ relayReply'.reason = "Already processed"]_vars

\* the only action was never posted: its first message found no frame, and a later
\* one, with the frame there, has been answered 'Already processed'
C29_NeverForwardedAfterFailure ==
  /\ Len(stored) = 1
  /\ relayProcessed = <<1>> /\ relayPosts = <<>>
  /\ relayReply = [actionId |-> 1, success |-> FALSE, reason |-> "Already processed",
                   frameReady |-> TRUE]

(***************************************************************************)
(* A check that reads a processed record (Spec).                           *)
(***************************************************************************)
\* C30: a check that reads a record whose actionId is in the processed set goes on to
\* delete it (as a duplicate, or as expired when it is that as well) without calling
\* injectPrompt; when the delete of a duplicate has completed the key is empty, no
\* injection attempt was started and no outcome report sent, the processed set is
\* as it was, and the check has returned false: a fast interval inside its window
\* stays armed.
C30_DuplicateIsDeletedNotInjected ==
  [][\A s \in PollSlots :
       LET old == calls["tab"][s]
           new == calls'["tab"][s]
       IN  /\ (ReadIn("tab", s) /\ Has(processedActionIds["tab"], storage.id)) =>
                /\ new.pc \in {"rmDup", "rmExpired"}
                /\ new.pc = "rmDup" <=> ~isExpired(now - storage.timestamp)
                /\ UNCHANGED <<attemptLog, reports, storage>>
           /\ (old.pc = "rmDup" /\ new # old) =>
                /\ new = Idle
                /\ storage' = NoRecord
                /\ UNCHANGED <<attemptLog, reports, processedActionIds, inbox>>
                /\ (s = "fast" /\ ~WindowElapsed) =>
                     UNCHANGED <<fastPollIntervalId, isInitialPolling>>]_vars

\* a broadcast delivered the action first and it was injected; a check has then read
\* the record, found its actionId in the processed set and is to delete it
C30_DuplicateReadAfterBroadcast ==
  /\ reports["tab"] = <<[type |-> "PROMPT_INJECTED", actionId |-> 1]>>
  /\ calls["tab"]["poll"] = [pc |-> "rmDup", id |-> 1]
  /\ storage.id = 1
  /\ attemptLog["tab"] = <<1>>
  /\ seen["tab"] = <<1>>

(***************************************************************************)
(* C31: when the input element was found and the value written but there   *)
(* is no usable send control, the call reports PROMPT_INJECTED, returns    *)
(* true and clicks nothing; PROMPT_INJECTION_FAILED is reported only when  *)
(* no input element was found after the last scan or an exception was      *)
(* thrown.                                                                 *)
(***************************************************************************)
C31_NoSendControlIsSuccess ==
  injection.pc = "done" =>
    /\ (injection.written # NoElement /\ ~injection.threw
          /\ findSendButton(document) = 0)
         => /\ injection.report = "PROMPT_INJECTED"
            /\ injection.result = "true"
            /\ injection.clicked = NoElement
    /\ injection.report = "PROMPT_INJECTION_FAILED"
         => \/ textarea.result = 0 /\ textarea.attempt = MAX_TEXTAREA_ATTEMPTS
            \/ injection.threw
    /\ injection.clicked # NoElement
         => /\ findSendButton(document) # 0
            /\ injection.clicked = document[findSendButton(document)]

\* the value was written into an input, only a disabled send button exists, and the call
\* returned true
C31_WrittenWithoutSendControl ==
  /\ injection.pc = "done"
  /\ injection.written # NoElement
  /\ ~injection.threw
  /\ findSendButton(document) = 0
  /\ \E i \in DOMAIN document : document[i].tag = "button" /\ document[i].disabled
  /\ injection.result = "true"
  /\ Len(reports["tab"]) = 1

(***************************************************************************)
(* C32: for each actionId an agent sends exactly one outcome report per    *)
(* injection attempt, PROMPT_INJECTED or PROMPT_INJECTION_FAILED, never    *)
(* both and never two of the same, and none for a call rejected as a       *)
(* duplicate; a report whose send fails leaves the result of the attempt   *)
(* as it is.                                                               *)
(***************************************************************************)
C32_OneReportPerAttempt ==
  /\ \A id \in 1..MaxActions :
       LET inFlight == injection.pc \in {"searching", "wait200"} /\ injection.actionId = id
       IN  /\ Count(attemptLog["tab"], id) <= 1
           /\ Cardinality(ReportsOf("tab", id)) =
                Count(attemptLog["tab"], id) - (IF inFlight THEN 1 ELSE 0)
  /\ injection.pc = "done" =>
       /\ injection.report = "PROMPT_INJECTED" <=> injection.result = "true"
       /\ injection.report = "none" =>
            /\ ~injection.sendFailed
            /\ Count(attemptLog["tab"], injection.actionId) = 1
       /\ injection.report # "none" =>
            Last(reports["tab"]) = [type |-> injection.report,
                                    actionId |-> injection.actionId]

\* the second call for an actionId returned as a duplicate: the report of the failed
\* first attempt is the only one
C32_DuplicateCallSendsNothing ==
  /\ injection.pc = "done"
  /\ injection.calls = 2
  /\ injection.report = "none"
  /\ injection.result = "false"
  /\ Len(reports["tab"]) = 1
  /\ reports["tab"][1].type = "PROMPT_INJECTION_FAILED"

(***************************************************************************)
(* C33: every call of openSidePanel returns; each strategy makes at most   *)
(* MAX_RETRY_ATTEMPTS + 1 open attempts, so at most three times as many    *)
(* are made before false is returned, attempts with an invalid tab or      *)
(* window id included.                                                     *)
(***************************************************************************)
C33_OpenSidePanelTerminates ==
  /\ [](/\ \A method \in Strategies :
             Cardinality({i \in DOMAIN openLog : openLog[i].method = method})
               <= MAX_RETRY_ATTEMPTS + 1
        /\ Len(openLog) <= 3 * (MAX_RETRY_ATTEMPTS + 1)
        /\ panel.retryCount <= MAX_RETRY_ATTEMPTS)
  /\ (panel.pc \in {"byTab", "byWindow", "query", "byActive"}) ~> (panel.pc = "done")

\* false is returned after every attempt failed, those of the first two strategies on
\* the NONE ids
C33_AllAttemptsFailedOnInvalidIds ==
  /\ panel.pc = "done"
  /\ panel.result = "false"
  /\ panel.tabId = TAB_ID_NONE
  /\ panel.windowId = WINDOW_ID_NONE
  /\ Len(openLog) = 18
  /\ \A i \in DOMAIN openLog : ~openLog[i].ok

(***************************************************************************)
(* C34: findTextarea returns; while no usable element exists it scans the  *)
(* selectors at most MAX_TEXTAREA_ATTEMPTS + 1 times, one fixed delay      *)
(* apart, and then returns null; a scan that finds a usable element        *)
(* returns it, whichever scan it is.                                       *)
(***************************************************************************)
C34_FindTextareaTerminates ==
  /\ [](textarea.attempt <= MAX_TEXTAREA_ATTEMPTS)
  /\ [][(injection.pc = "searching" /\ textarea' # textarea) =>
          LET candidates ==
                {i \in DOMAIN document :
                   /\ isElementUsable(document[i])
                   /\ \E k \in DOMAIN TEXTAREA_SELECTORS :
                        matches(TEXTAREA_SELECTORS[k], document[i])}
          IN  /\ textarea.result = -1
              /\ candidates # {} =>
                   textarea'.result \in candidates /\ textarea'.attempt = textarea.attempt
              /\ candidates = {} =>
                   IF textarea.attempt < MAX_TEXTAREA_ATTEMPTS
                   THEN textarea'.result = -1 /\ textarea'.attempt = textarea.attempt + 1
                   ELSE textarea'.result = 0 /\ textarea'.attempt = textarea.attempt]_vars
  /\ (injection.pc = "searching" /\ textarea.result = -1) ~> (textarea.result # -1)

\* the element appeared while findTextarea waited for its last scan, which returned it
C34_FoundByLastScan ==
  /\ injection.pc = "searching"
  /\ textarea.attempt = MAX_TEXTAREA_ATTEMPTS
  /\ textarea.result > 0
  /\ isElementUsable(document[textarea.result])

(***************************************************************************)
(* C35: userDetails.updateLastVisit never raises to its caller; when the   *)
(* storage write fails the stored last-visit value stays as it was, and    *)
(* nothing else of the user's storage changes in either case.              *)
(***************************************************************************)
C35_UpdateLastVisitNeverRaises ==
  [][userCall'.op = "updateLastVisit" =>
       /\ ~userCall'.threw
       /\ userStore' = userStore
       /\ lastVisit' = IF userCall'.failed THEN lastVisit ELSE sanitizeValue(IsoNow)]_vars

\* a write that failed after an earlier one succeeded: the earlier value is kept
C35_FailedWriteKeepsValue ==
  /\ userCall.op = "updateLastVisit"
  /\ userCall.failed
  /\ ~userCall.threw
  /\ lastVisit = sanitizeValue(IsoNow)

(***************************************************************************)
(* C36: whenever the loading overlay is shown, at the initial load or      *)
(* after a refresh, it is hidden later on, the frame firing a load or      *)
(* error event or not.                                                     *)
(***************************************************************************)
C36_OverlayEventuallyHidden ==
  (~sidepanel.hidden /\ sidepanel.display = "flex")
    ~> (sidepanel.hidden \/ sidepanel.display = "none")

(***************************************************************************)
(* C37: a check whose storage read or storage delete fails returns false:  *)
(* it starts no injection, leaves the processed identifiers and the record *)
(* as they are and cancels no interval before the fast phase has elapsed,  *)
(* so that a later check can consume the record.                           *)
(***************************************************************************)
C37_FailedStorageCallReturnsFalse ==
  [][\A s \in {"fast", "poll"} :
       LET deleteFailed == /\ calls["tab"][s].pc \in Removing
                           /\ calls'["tab"][s] = Idle
                           /\ storage.id # 0
                           /\ storage' = storage
           readFailed == /\ calls["tab"][s].pc = "idle"
                         /\ calls' = calls
                         /\ now' = now
                         /\ stored' = stored
       IN  (deleteFailed \/ readFailed) =>
             /\ storage' = storage
             /\ processedActionIds' = processedActionIds
             /\ attemptLog' = attemptLog
             /\ reports' = reports
             /\ \A t \in Slots \ {s} : calls'["tab"][t] = calls["tab"][t]
             /\ fastPollIntervalId'["tab"] # fastPollIntervalId["tab"] =>
                  now - initStartTime["tab"] > INITIAL_POLL_DURATION]_vars

\* the record was read three times by the checks of two timers, so one of them read it
\* again after its delete had failed, and the record was deleted and injected in the end
C37_ConsumedAfterFailedDelete ==
  /\ <<1, "check-failed">> \in terminal["tab"]
  /\ seen["tab"] = <<1, 1, 1>>
  /\ \A s \in Slots : calls["tab"][s] = Idle
  /\ attemptLog["tab"] = <<1>>
  /\ storage = NoRecord
  /\ <<1, "injected">> \in terminal["tab"]
  /\ fastPollIntervalId["tab"]

(***************************************************************************)
(* C38: within one frame agent at most one injection is in progress at any *)
(* time; the steps of the injection of one actionId are not interleaved    *)
(* with those of another actionId.                                         *)
(***************************************************************************)
C38_OneInjectionAtATime ==
  \A s, t \in Slots :
    (calls["tab"][s].pc = "injecting" /\ calls["tab"][t].pc = "injecting") => s = t

(***************************************************************************)
(* C39: the side-panel relay never reads, writes or deletes the record in  *)
(* storage: no step of the relay changes it; it is written only by the     *)
(* dispatcher when it stores an action and deleted only by a check of a    *)
(* frame agent.                                                            *)
(***************************************************************************)
C39_RelayLeavesRecordAlone ==
  [][/\ relayVars' # relayVars => storage' = storage
     /\ storage' # storage =>
          \/ /\ Len(stored') = Len(stored) + 1
             /\ storage' = Last(stored')
             /\ relayVars' = relayVars
          \/ /\ storage' = NoRecord
             /\ \E s \in Slots : calls["frame"][s].pc \in Removing
             /\ stored' = stored]_vars

\* the relay has handled the message of the action whose record is still in storage
C39_RelayHandledRecordInStorage ==
  /\ storage # NoRecord
  /\ Has(relayProcessed, storage.id)
  /\ Has(relayPosts, storage.id)
  /\ \A s \in Slots : calls["frame"][s] = Idle
====
